---------------------------- MODULE Spec2Model ----------------------------
(***************************************************************************)
(* Model of the Assamese -> English PDF translator.                        *)
(*                                                                         *)
(*   src/server/routes.ts  the current server: Mistral OCR of the whole    *)
(*                         document, per-page translation, overlay, job    *)
(*                         cache with a 30 minute eviction timer.          *)
(*   src/replit.md         the Tesseract pipeline the server grew out of   *)
(*                         (lines 384-835): rasterizer, two preprocessing  *)
(*                         variants, variant selection, line               *)
(*                         reconstruction, engine lifecycle.               *)
(*                                                                         *)
(* Five specifications share the module:                                   *)
(*   SpecLines     line reconstruction   (replit.md 569-619)               *)
(*   SpecVariants  variant loop/selector (replit.md 535-567)               *)
(*   SpecReflow    overlay renderer      (routes.ts 155-211)               *)
(*   SpecOcr       Tesseract translatePdf + its route (replit.md 638-809)  *)
(*   Spec          the server of routes.ts (99-286)                        *)
(* Each specification leaves the variables of the others unchanged.        *)
(***************************************************************************)
EXTENDS Integers, Sequences, FiniteSets, TLC

VARIABLES
  \* ---- line reconstruction (replit.md 569-619)
  rawWords,        \* bestResult.data.words: <<list>>, or <<>> when undefined
  words,           \* const words: OCRWord[]
  lines,           \* const lines: OCRLine[]
  linesPc,         \* "recognized" | "done"
  \* ---- variant loop and selector (replit.md 535-567)
  results,         \* const results: Array<{variant, result, confidence}>
  processed,       \* per variant tried: the image handed to worker.recognize,
                   \* and whether sharp threw while preparing it
  bestResult,      \* <<results[0].result>> after the sort, <<>> before
  varPc,           \* "loop" | "selected" | "thrown"
  \* ---- overlay renderer (routes.ts 155-211)
  pageSize,        \* page.getSize(): [width, height] in points
  translatedText,  \* translatedTexts[index], a sequence of characters
  drawn,           \* the page.drawText calls made: <<[text, y]>>, y a double
  reflowPc,        \* "copied" | "done"
  \* ---- the server (routes.ts 99-286)
  now,             \* Date.now(), in ms since the server started
  translationCache,\* const translationCache = new Map(): jobId -> entry
  timers,          \* pending setTimeout callbacks: {[jobId, due, by]}
  req,             \* per request: where its handler stands, and its locals
  dl,              \* what the clients of GET /api/download/:jobId have seen
  \* ---- the Tesseract version of the job (replit.md 638-809)
  job              \* the request: where translatePdf stands, and its locals

linesVars == <<rawWords, words, lines, linesPc>>
variantVars == <<results, processed, bestResult, varPc>>
reflowVars == <<pageSize, translatedText, drawn, reflowPc>>
serverVars == <<now, translationCache, timers, req, dl>>
ocrVars == <<job>>
vars == <<linesVars, variantVars, reflowVars, serverVars, ocrVars>>

(***************************************************************************)
(* JavaScript helpers.                                                     *)
(***************************************************************************)
\* An optional value is <<>> (undefined / missing) or <<v>>.
\* `x || d` on an optional number or string: undefined gives d; the falsy
\* values 0 and "" give d too, which is the same value for d = 0 and d = "".
OrDefault(opt, d) == IF opt = <<>> THEN d ELSE opt[1]

Abs(n) == IF n < 0 THEN -n ELSE n

Range(s) == {s[k] : k \in DOMAIN s}

RECURSIVE SeqsUpTo(_, _)
\* All sequences over S of length at most n.
SeqsUpTo(S, n) ==
  IF n = 0 THEN {<<>>}
  ELSE LET shorter == SeqsUpTo(S, n - 1)
       IN shorter \cup {Append(s, x) : s \in {t \in shorter : Len(t) = n - 1}, x \in S}

(***************************************************************************)
(* Strings are sequences of one-character strings.                         *)
(***************************************************************************)
\* The whitespace characters of the model's alphabets (JavaScript \s).
IsWhitespace(c) == c \in {" ", "\n", "\t"}

RECURSIVE TrimStart(_)
TrimStart(text) ==
  IF text # <<>> /\ IsWhitespace(Head(text)) THEN TrimStart(Tail(text)) ELSE text

RECURSIVE TrimEnd(_)
TrimEnd(text) ==
  IF text # <<>> /\ IsWhitespace(text[Len(text)])
  THEN TrimEnd(SubSeq(text, 1, Len(text) - 1))
  ELSE text

\* String.prototype.trim
Trim(text) == TrimEnd(TrimStart(text))

RECURSIVE RemoveAll(_, _)
\* text.replace(/c/g, '') for a single character c
RemoveAll(text, c) ==
  IF text = <<>> THEN <<>>
  ELSE IF Head(text) = c THEN RemoveAll(Tail(text), c)
  ELSE <<Head(text)>> \o RemoveAll(Tail(text), c)

RECURSIVE SkipWhile(_, _, _)
\* The first position at or after k whose character is not in S.
SkipWhile(text, k, S) ==
  IF k <= Len(text) /\ text[k] \in S THEN SkipWhile(text, k + 1, S) ELSE k

RECURSIVE StripHeadingsFrom(_, _)
\* text.replace(/^#+\s*/gm, ''): at every line start, a run of '#' and the
\* whitespace behind it are removed.
StripHeadingsFrom(text, k) ==
  IF k > Len(text) THEN <<>>
  ELSE IF text[k] = "#" /\ (k = 1 \/ text[k - 1] = "\n")
       THEN StripHeadingsFrom(text, SkipWhile(text, SkipWhile(text, k, {"#"}), {" ", "\n", "\t"}))
       ELSE <<text[k]>> \o StripHeadingsFrom(text, k + 1)

\* The grave accent U+0060, which a TLA+ string cannot hold.
Backtick == "U+0060"

\* The first position at or after k that holds character c, or 0.
FirstAt(text, k, c) ==
  LET hits == {j \in k..Len(text) : text[j] = c}
  IN IF hits = {} THEN 0 ELSE CHOOSE j \in hits : \A h \in hits : j <= h

\* /\[([^\]]+)\]\([^\)]+\)/ matched at position i: the positions of the
\* closing bracket and of the closing parenthesis, or <<>> when it does not
\* match there.  The label ends at the first ']' and the target at the first
\* ')'; both are at least one character long.
LinkAt(text, i) ==
  IF text[i] # "[" THEN <<>>
  ELSE LET j == FirstAt(text, i + 1, "]")
       IN IF j < i + 2 \/ j + 1 > Len(text) \/ text[j + 1] # "(" THEN <<>>
          ELSE LET k == FirstAt(text, j + 2, ")")
               IN IF k < j + 3 THEN <<>> ELSE <<j, k>>

RECURSIVE ReplaceLinksFrom(_, _)
\* text.replace(/\[([^\]]+)\]\([^\)]+\)/g, '$1'): every link, from the left,
\* is replaced by its label.
ReplaceLinksFrom(text, i) ==
  IF i > Len(text) THEN <<>>
  ELSE LET m == LinkAt(text, i)
       IN IF m = <<>> THEN <<text[i]>> \o ReplaceLinksFrom(text, i + 1)
          ELSE SubSeq(text, i + 1, m[1] - 1) \o ReplaceLinksFrom(text, m[2] + 1)

\* routes.ts 125-131: headings, emphasis marks, links and backticks are
\* taken out, in this order, and the result is trimmed.
CleanMarkdown(pageText) ==
  Trim(RemoveAll(ReplaceLinksFrom(RemoveAll(StripHeadingsFrom(pageText, 1), "*"), 1),
                 Backtick))

(***************************************************************************)
(* translateWithHuggingFace: routes.ts 22-62 (and replit.md 456-496).      *)
(***************************************************************************)
\* What the network does with one POST.  kind:
\*   "reject"  fetch rejects (network error): error is the rejection
\*   "http"    a response with !response.ok: status and body text
\*   "array"   ok, JSON [{translation_text: text}], or [] when items = 0
\*   "object"  ok, JSON {generated_text: text}; text <<>> when absent
\*   "string"  ok, JSON "text"
\*   "badjson" ok, response.json() rejects with a SyntaxError
\* text is optional: <<>> (absent) or <<t>>.
HfReply(kind, items, status, text) ==
  [kind |-> kind, items |-> items, status |-> status, text |-> text]

FetchError == [name |-> <<"F", "e", "t", "c", "h", "E", "r", "r", "o", "r">>, message |-> <<"E", "C", "O", "N", "N", "R", "E", "S", "E", "T">>]
JsonError == [name |-> <<"S", "y", "n", "t", "a", "x", "E", "r", "r", "o", "r">>, message |-> <<"U", "n", "e", "x", "p", "e", "c", "t", "e", "d", " ", "t", "o", "k", "e", "n">>]

\* new Error(message)
Error(message) == [name |-> <<"E", "r", "r", "o", "r">>, message |-> message]

\* String(error), Error.prototype.toString: the name alone when the message
\* is empty, the message alone when the name is, "name: message" otherwise.
ErrorToString(error) ==
  IF error.name = <<>> THEN error.message
  ELSE IF error.message = <<>> THEN error.name
  ELSE error.name \o <<":", " ">> \o error.message

\* routes.ts 44-61: the outcome of the function once the reply is in:
\* [ok |-> TRUE, value |-> text] or [ok |-> FALSE, error |-> e].
HandleReply(reply) ==
  IF reply.kind = "reject" THEN [ok |-> FALSE, error |-> FetchError]
  ELSE IF reply.kind = "http"
  THEN [ok |-> FALSE,
        error |-> Error(<<"T", "r", "a", "n", "s", "l", "a", "t", "i", "o", "n", " ", "f", "a", "i", "l", "e", "d", ":", " ">> \o reply.status \o <<" ", "-", " ">> \o OrDefault(reply.text, <<>>))]
  ELSE IF reply.kind = "badjson" THEN [ok |-> FALSE, error |-> JsonError]
  ELSE IF reply.kind = "array" /\ reply.items > 0 /\ OrDefault(reply.text, <<>>) # <<>>
  THEN [ok |-> TRUE, value |-> reply.text[1]]
  ELSE IF reply.kind = "object" /\ reply.text # <<>>
  THEN [ok |-> TRUE, value |-> reply.text[1]]
  ELSE IF reply.kind = "string"
  THEN [ok |-> TRUE, value |-> reply.text[1]]
  ELSE [ok |-> FALSE, error |-> Error(<<"I", "n", "v", "a", "l", "i", "d", " ", "t", "r", "a", "n", "s", "l", "a", "t", "i", "o", "n", " ", "r", "e", "s", "p", "o", "n", "s", "e", " ", "f", "o", "r", "m", "a", "t">>)]

\* routes.ts 23-25: no request is sent for an empty or blank text.
NeedsFetch(text) == Len(Trim(text)) # 0

\* A catch block that stores an empty text instead of the marker.
FailureMarkerEmpty(error) == <<>>

\* routes.ts 138: the template [Translation failed: ${error}]
FailureMarker(error) == <<"[", "T", "r", "a", "n", "s", "l", "a", "t", "i", "o", "n", " ", "f", "a", "i", "l", "e", "d", ":", " ">> \o ErrorToString(error) \o <<"]">>

\* routes.ts 133-139: what the page's try/catch pushes for an outcome.
TranslatedOrMarker(outcome) ==
  IF outcome.ok THEN outcome.value ELSE FailureMarker(outcome.error)

(***************************************************************************)
(* Line reconstruction: extractTextFromPdfPage, replit.md 569-619.         *)
(***************************************************************************)
MaxWords == 3

yTolerance == 4

\* bestResult.data.words is undefined.
NoWordList == <<>>

\* Raw engine words: text and bbox.y0 may be missing.  The id is the word's
\* position in the engine's array: it stands for the object's identity.
RawY0s == {<<>>, <<10>>, <<11>>, <<14>>, <<40>>}
RawTexts == {<<>>, <<<<"k", "a">>>>}
RawWord == [text : RawTexts, y0 : RawY0s]
RawWordLists == SeqsUpTo(RawWord, MaxWords)

\* bestResult.data.words?.map(w => ({text: w.text || '', ..., y0: w.bbox?.y0 || 0})) || []
MapWords(raw) ==
  IF raw = NoWordList THEN <<>>
  ELSE [k \in DOMAIN raw[1] |->
          [id |-> k, text |-> OrDefault(raw[1][k].text, <<>>),
           y0 |-> OrDefault(raw[1][k].y0, 0)]]

\* An insertion that puts w in front of the elements of equal y0: words of
\* equal y0 come out in the reverse of their input order.
InsertByY0TiesFirst(sorted, w) ==
  LET before == {k \in DOMAIN sorted : sorted[k].y0 < w.y0}
      n == Cardinality(before)
  IN SubSeq(sorted, 1, n) \o <<w>> \o SubSeq(sorted, n + 1, Len(sorted))

\* Insert w behind every element whose y0 is not greater: the stable order
\* Array.prototype.sort gives with the comparator (a, b) => a.y0 - b.y0.
InsertByY0(sorted, w) ==
  LET before == {k \in DOMAIN sorted : sorted[k].y0 <= w.y0}
      n == Cardinality(before)
  IN SubSeq(sorted, 1, n) \o <<w>> \o SubSeq(sorted, n + 1, Len(sorted))

RECURSIVE SortFrom(_, _, _)
SortFrom(ws, k, acc) ==
  IF k > Len(ws) THEN acc ELSE SortFrom(ws, k + 1, InsertByY0(acc, ws[k]))

\* [...words].sort((a, b) => a.bbox.y0 - b.bbox.y0)
SortByY0(ws) == SortFrom(ws, 1, <<>>)

RECURSIVE JoinTexts(_, _)
\* currentLine.map(w => w.text).join(' ')
JoinTexts(ws, k) ==
  IF k > Len(ws) THEN <<>>
  ELSE IF k = Len(ws) THEN ws[k].text
  ELSE ws[k].text \o <<" ">> \o JoinTexts(ws, k + 1)

\* lines.push({text: lineText, ..., words: currentLine})
MakeLine(currentLine) == [text |-> JoinTexts(currentLine, 1), words |-> currentLine]

PushLine(ls, currentLine) ==
  IF Len(currentLine) > 0 THEN Append(ls, MakeLine(currentLine)) ELSE ls

\* A loop that forgets the flush of the last line after the scan.
RECURSIVE ScanWordsNoFinalFlush(_, _, _, _)
ScanWordsNoFinalFlush(sortedWords, i, currentLine, ls) ==
  IF i > Len(sortedWords) THEN ls
  ELSE IF Abs(sortedWords[i].y0 - sortedWords[i - 1].y0) < yTolerance
       THEN ScanWordsNoFinalFlush(sortedWords, i + 1, Append(currentLine, sortedWords[i]), ls)
       ELSE ScanWordsNoFinalFlush(sortedWords, i + 1, <<sortedWords[i]>>, PushLine(ls, currentLine))

RECURSIVE ScanWords(_, _, _, _)
\* for (let i = 1; i < sortedWords.length; i++) { ... } followed by the
\* flush of the last line (i is 1-based here).
ScanWords(sortedWords, i, currentLine, ls) ==
  IF i > Len(sortedWords) THEN PushLine(ls, currentLine)
  ELSE IF Abs(sortedWords[i].y0 - sortedWords[i - 1].y0) < yTolerance
       THEN ScanWords(sortedWords, i + 1, Append(currentLine, sortedWords[i]), ls)
       ELSE ScanWords(sortedWords, i + 1, <<sortedWords[i]>>, PushLine(ls, currentLine))

ReconstructLines(ws) ==
  IF Len(ws) > 0
  THEN LET sortedWords == SortByY0(ws) IN ScanWords(sortedWords, 2, <<sortedWords[1]>>, <<>>)
  ELSE <<>>

LinesIdle ==
  /\ rawWords = NoWordList /\ words = <<>> /\ lines = <<>> /\ linesPc = "off"

InitLines ==
  /\ rawWords \in {<<l>> : l \in RawWordLists} \cup {NoWordList}
  /\ words = <<>>
  /\ lines = <<>>
  /\ linesPc = "recognized"

\* replit.md 569-619 as one step: map the words, sort, cluster.
Reconstruct ==
  /\ linesPc = "recognized"
  /\ words' = MapWords(rawWords)
  /\ lines' = ReconstructLines(MapWords(rawWords))
  /\ linesPc' = "done"
  /\ UNCHANGED <<rawWords, variantVars, reflowVars, serverVars, ocrVars>>

(***************************************************************************)
(* Variant loop and selector: extractTextFromPdfPage, replit.md 535-567.   *)
(***************************************************************************)
\* for (const variant of ['grayscale', 'adaptive'] as const)
Variants == <<"grayscale", "adaptive">>

\* result.data.confidence of one recognition: missing, or a score in [0,100].
RawConfidences == {<<>>, <<0>>, <<40>>, <<90>>, <<100>>}
RecognizedTexts == {<<>>, <<"k", "a", " ", "k", "h", "a">>}

\* const rawImageData = canvas.toBuffer("image/png")
rawImageData == "raw"

\* A preprocessor without the catch: no image comes back when sharp throws.
preprocessImageForOCRNoFallback(imageBuffer, variant, sharpThrows) ==
  IF sharpThrows THEN <<>> ELSE <<"enhanced", variant, imageBuffer>>

\* preprocessImageForOCR(imageBuffer, variant): the enhanced image, or the
\* untouched input buffer when sharp throws (replit.md 404-428).
preprocessImageForOCR(imageBuffer, variant, sharpThrows) ==
  IF sharpThrows THEN imageBuffer ELSE <<"enhanced", variant, imageBuffer>>

\* Insert e in front of the entries of equal confidence: the later variant
\* wins a tie.
InsertByConfidenceTiesLast(sorted, e) ==
  LET before == {k \in DOMAIN sorted : sorted[k].confidence > e.confidence}
      n == Cardinality(before)
  IN SubSeq(sorted, 1, n) \o <<e>> \o SubSeq(sorted, n + 1, Len(sorted))

\* Insert e behind every entry whose confidence is not smaller: the stable
\* order of results.sort((a, b) => b.confidence - a.confidence).
InsertByConfidence(sorted, e) ==
  LET before == {k \in DOMAIN sorted : sorted[k].confidence >= e.confidence}
      n == Cardinality(before)
  IN SubSeq(sorted, 1, n) \o <<e>> \o SubSeq(sorted, n + 1, Len(sorted))

RECURSIVE SortResultsFrom(_, _, _)
SortResultsFrom(rs, k, acc) ==
  IF k > Len(rs) THEN acc ELSE SortResultsFrom(rs, k + 1, InsertByConfidence(acc, rs[k]))

SortByConfidence(rs) == SortResultsFrom(rs, 1, <<>>)

VariantsIdle ==
  /\ results = <<>> /\ processed = <<>> /\ bestResult = <<>> /\ varPc = "off"

InitVariants ==
  /\ results = <<>>
  /\ processed = <<>>
  /\ bestResult = <<>>
  /\ varPc = "loop"

\* replit.md 537-538: an iteration of the loop starts; the image of the
\* variant is prepared (sharp resolves, or throws and the raw image comes
\* back) and handed to worker.recognize.
PreprocessVariant ==
  /\ varPc = "loop"
  /\ Len(results) < Len(Variants)
  /\ \E sharpThrows \in BOOLEAN :
       processed' = Append(processed,
          [variant |-> Variants[Len(results) + 1], threw |-> sharpThrows,
           image |-> preprocessImageForOCR(rawImageData, Variants[Len(results) + 1],
                                           sharpThrows)])
  /\ varPc' = "recognize"
  /\ UNCHANGED <<results, bestResult, linesVars, reflowVars, serverVars, ocrVars>>

\* replit.md 540-561: worker.recognize resolves; push {variant, result,
\* confidence: result.data.confidence || 0}.  The field call is the identity
\* of the object worker.recognize returned.
RecognizeVariant ==
  /\ varPc = "recognize"
  /\ LET variant == Variants[Len(results) + 1] IN
     \E c \in RawConfidences, t \in RecognizedTexts :
       LET result == [call |-> Len(results) + 1, confidence |-> c, text |-> t] IN
         results' = Append(results,
               [variant |-> variant, result |-> result, confidence |-> OrDefault(c, 0)])
  /\ varPc' = "loop"
  /\ UNCHANGED <<processed, bestResult, linesVars, reflowVars, serverVars, ocrVars>>

\* replit.md 540: worker.recognize rejects: nothing in
\* extractTextFromPdfPage catches it.
RecognizeThrows ==
  /\ varPc = "recognize"
  /\ varPc' = "thrown"
  /\ UNCHANGED <<results, processed, bestResult, linesVars, reflowVars, serverVars, ocrVars>>

\* replit.md 564-565: sort by confidence, descending, and take results[0].
SelectBest ==
  /\ varPc = "loop"
  /\ Len(results) = Len(Variants)
  /\ results' = SortByConfidence(results)
  /\ bestResult' = <<SortByConfidence(results)[1].result>>
  /\ varPc' = "selected"
  /\ UNCHANGED <<processed, linesVars, reflowVars, serverVars, ocrVars>>

(***************************************************************************)
(* Overlay renderer: translatePdf, routes.ts 155-211 (the same loop is     *)
(* replit.md 709-765).  Texts are sequences of one-character strings.      *)
(* Page sizes, text widths and vertical positions are the numbers of the   *)
(* code: IEEE 754 doubles, every operation rounded to the nearest double.  *)
(***************************************************************************)
\* A number is kept exactly as whole + hi / 2^20 + mid / 2^40 + lo / 2^60 with
\* 0 <= hi, mid, lo < 2^20; whole is the floor of the number, so that -0.5 is
\* whole -1 and hi 2^19.  Every double of magnitude from 2^-8 up to 2^31 is
\* such a number, and so are the sums, the differences and the integer
\* multiples of such doubles.
Limb == 1048576

\* The double of an integer.
FromInt(n) == [whole |-> n, hi |-> 0, mid |-> 0, lo |-> 0]

\* a + b and a - b without rounding.
ExactSum(a, b) ==
  LET lo == a.lo + b.lo
      mid == a.mid + b.mid + (lo \div Limb)
      hi == a.hi + b.hi + (mid \div Limb)
  IN [whole |-> a.whole + b.whole + (hi \div Limb),
      hi |-> hi % Limb, mid |-> mid % Limb, lo |-> lo % Limb]

ExactDifference(a, b) ==
  LET lo == a.lo - b.lo
      mid == a.mid - b.mid + (lo \div Limb)
      hi == a.hi - b.hi + (mid \div Limb)
  IN [whole |-> a.whole - b.whole + (hi \div Limb),
      hi |-> hi % Limb, mid |-> mid % Limb, lo |-> lo % Limb]

RECURSIVE ExactMultiple(_, _)
\* n * d without rounding, n a natural number.
ExactMultiple(n, d) ==
  IF n = 0 THEN FromInt(0)
  ELSE LET half == ExactMultiple(n \div 2, d)
           twice == ExactSum(half, half)
       IN IF n % 2 = 0 THEN twice ELSE ExactSum(twice, d)

\* a < b
DoubleLess(a, b) ==
  \/ a.whole < b.whole
  \/ a.whole = b.whole /\ a.hi < b.hi
  \/ a.whole = b.whole /\ a.hi = b.hi /\ a.mid < b.mid
  \/ a.whole = b.whole /\ a.hi = b.hi /\ a.mid = b.mid /\ a.lo < b.lo

RECURSIVE Log2(_)
\* The exponent of the highest power of two not above n, n >= 1.
Log2(n) == IF n < 2 THEN 0 ELSE 1 + Log2(n \div 2)

\* The distance of the doubles next to the non-negative number m is
\* 2^UlpExponent(m) / 2^60: 53 significant bits, so 2^(e - 52) for a number
\* from 2^e up to 2^(e + 1).  Below 2^-8 every number of the form above is a
\* double.
UlpExponent(m) ==
  IF m.whole >= 1 THEN Log2(m.whole) + 8
  ELSE IF m.hi >= 4096 THEN Log2(m.hi) - 12
  ELSE 0

\* The number mid / 2^40 + lo / 2^60.
Fraction(mid, lo) == [whole |-> 0, hi |-> 0, mid |-> mid, lo |-> lo]

\* The nearer of the two doubles around a non-negative number, ties to the
\* even one: down is the double below the number or equal to it, ulp leads
\* from down to the next double, the number is down + rest, or, when
\* inexact, above it by less than 1 / 2^60, and half is ulp / 2 (1 / 2^60
\* for an ulp of that size, which rest never reaches).
NearestOf(down, ulp, rest, half, evenDown, inexact) ==
  IF DoubleLess(rest, half) \/ (rest = half /\ ~inexact /\ evenDown)
  THEN down
  ELSE ExactSum(down, ulp)

\* The double nearest to the non-negative number m, or to a number above m
\* by less than 1 / 2^60 when inexact, the doubles around m being
\* 2^e / 2^60 apart.
RoundAt(m, e, inexact) ==
  IF e < 20
  THEN NearestOf([m EXCEPT !.lo = m.lo - (m.lo % 2^e)], Fraction(0, 2^e),
                 Fraction(0, m.lo % 2^e), Fraction(0, IF e >= 1 THEN 2^(e - 1) ELSE 1),
                 (m.lo \div 2^e) % 2 = 0, inexact)
  ELSE NearestOf([m EXCEPT !.mid = m.mid - (m.mid % 2^(e - 20)), !.lo = 0],
                 Fraction(2^(e - 20), 0), Fraction(m.mid % 2^(e - 20), m.lo),
                 IF e > 20 THEN Fraction(2^(e - 21), 0) ELSE Fraction(0, 2^19),
                 (m.mid \div 2^(e - 20)) % 2 = 0, inexact)

\* The double nearest to a non-negative number, ties to the even one.  The
\* number is m, or, when inexact, a number above m by less than 1 / 2^60
\* (UlpExponent(m) >= 1 then).
RoundMagnitude(m, inexact) == RoundAt(m, UlpExponent(m), inexact)

\* -d
Negated(d) == ExactDifference(FromInt(0), d)

\* m, or -m when negative.
Signed(negative, m) == IF negative THEN Negated(m) ELSE m

\* The double nearest to the exact number d, ties to the even one.
RoundToDouble(d) ==
  Signed(d.whole < 0, RoundMagnitude(IF d.whole < 0 THEN Negated(d) ELSE d, FALSE))

\* a + b and a - b of two doubles.
DoubleAdd(a, b) == RoundToDouble(ExactSum(a, b))

DoubleSub(a, b) == RoundToDouble(ExactDifference(a, b))

\* n * d of a natural number and a double.
DoubleTimes(n, d) == RoundToDouble(ExactMultiple(n, d))

\* n / d of two natural numbers, 1 <= d < 2048 and n / d >= 2^-7; also the
\* double that a decimal literal or a decimal number of a PDF file stands
\* for (1.3 is 13 / 10).
DoubleDiv(n, d) ==
  LET hi == (n % d) * Limb
      mid == (hi % d) * Limb
      lo == (mid % d) * Limb
  IN RoundMagnitude([whole |-> n \div d, hi |-> hi \div d, mid |-> mid \div d,
                     lo |-> lo \div d], lo % d # 0)

\* d * 0.5, which is exact for a double of magnitude from 2^-7 on.
DoubleHalf(d) ==
  LET hi == d.hi + (d.whole % 2) * Limb
      mid == d.mid + (hi % 2) * Limb
      lo == d.lo + (mid % 2) * Limb
  IN [whole |-> d.whole \div 2, hi |-> hi \div 2, mid |-> mid \div 2, lo |-> lo \div 2]

\* The literal 1.3: the double 0x1.4cccccccccccdp+0.
onePointThree == DoubleDiv(13, 10)

MaxTextLen == 6

fontSize == 9

margin == 25

\* const lineHeight = fontSize * 1.3: the double 11.700000000000001.
lineHeight == DoubleTimes(fontSize, onePointThree)

\* lineHeight * 0.5: the double 5.8500000000000005.
halfLineHeight == DoubleHalf(lineHeight)

\* margin + lineHeight: the double 36.7.
marginPlusLineHeight == DoubleAdd(FromInt(margin), lineHeight)

\* piece written n times.
Repeated(piece, n) == [i \in 1..(n * Len(piece)) |-> piece[((i - 1) % Len(piece)) + 1]]

\* page.getSize() of a page whose MediaBox is written in hundredths of a
\* point.
PageSize(width, height) == [width |-> DoubleDiv(width, 100), height |-> DoubleDiv(height, 100)]

Chars == {"i", "m", " ", "\n"}
PageWidths == {5500, 6000}
PageHeights == {4000, 6200, 7500}

\* A page on which ten line heights lead from the first line to the margin,
\* and texts that reach the foot of it.
TallPageHeights == {16700}
TallPageTexts ==
  {<<"i", " ", "i", " ", "i", " ", "i", " ", "i", " ", "i", " ", "i", " ", "i", " ", "i", " ", "i", " ", "i">>, <<"m", " ", "m", " ", "m", " ", "m", " ", "m", " ", "m", " ", "m", " ", "m", " ", "m", " ", "m", " ", "m">>,
   <<"m", " ", "m">> \o <<"\n", "\n">> \o <<"m", " ", "m", " ", "m">> \o <<"\n", "\n">> \o <<"m", " ", "m", " ", "m">> \o <<"\n", "\n">> \o <<"m", " ", "m">>,
   <<"\n", "\n">> \o <<"m", " ", "m">> \o <<"\n", "\n">> \o <<"m", " ", "m", " ", "m">> \o <<"\n", "\n">> \o <<"m", " ", "m", " ", "m">> \o <<"\n", "\n">> \o <<"m">>,
   <<"\n", "\n">> \o <<"m">> \o <<"\n", "\n">> \o <<"m", " ", "m", " ", "m">> \o <<"\n", "\n">> \o <<"m", " ", "m", " ", "m">> \o <<"\n", "\n">> \o <<"m", " ", "m">>,
   <<"m", " ", "m", " ", "m">> \o <<"\n", "\n">> \o <<"m", " ", "m", " ", "m">> \o <<"\n", "\n">> \o <<"m", " ", "m", " ", "m", " ", "m">>}

\* Paper: A4 (595.28 x 841.89 pt), Letter (612 x 792), A6 and A7, and texts
\* long enough to fill lines and pages of these sizes.
PaperSizes ==
  {PageSize(59528, 84189), PageSize(61200, 79200), PageSize(29764, 41953), PageSize(20976, 29764)}
PaperTexts ==
  {Repeated(<<"m", " ">>, 60),
   Repeated(<<"m", "\n", "\n">>, 50),
   Repeated(<<"m", "m", "m", "m", "m", "m", "m", "m", "m", "m", " ">>, 48),
   Repeated(<<"m", " ", "i", " ", "m", "\n", "\n", "\n", "i", "\n">>, 30)}

\* Helvetica advance widths in 1/1000 em (Helvetica.afm).  pdf-lib adds the
\* kerning of adjacent pairs; no pair of Helvetica joins two of i, m and
\* space, the glyphs of the texts whose lines are measured against widths
\* they may or may not fit.
GlyphWidth(c) ==
  IF c \in {"i", "j", "l"} THEN 222
  ELSE IF c \in {" ", ".", ",", ":", ";", "[", "]", "I", "f", "t", "!", "/"} THEN 278
  ELSE IF c \in {"-", "(", ")", "r"} THEN 333
  ELSE IF c = "*" THEN 389
  ELSE IF c \in {"c", "k", "s", "v", "x", "y", "z", "J"} THEN 500
  ELSE IF c \in {"F", "T", "Z"} THEN 611
  ELSE IF c \in {"A", "B", "E", "K", "P", "S", "V", "X", "Y"} THEN 667
  ELSE IF c \in {"C", "D", "H", "N", "R", "U", "w"} THEN 722
  ELSE IF c \in {"G", "O", "Q"} THEN 778
  ELSE IF c \in {"m", "M"} THEN 833
  ELSE IF c = "W" THEN 944
  ELSE 556

RECURSIVE SumWidths(_, _, _)
\* The advance widths of text[lo..hi] added up.
SumWidths(text, lo, hi) ==
  IF lo > hi THEN 0
  ELSE IF lo = hi THEN GlyphWidth(text[lo])
  ELSE LET mid == (lo + hi) \div 2
       IN SumWidths(text, lo, mid) + SumWidths(text, mid + 1, hi)

\* font.widthOfTextAtSize(text, size) of pdf-lib: the advance widths added
\* up, times the scale size / 1000.
widthOfTextAtSize(text, size) == DoubleTimes(SumWidths(text, 1, Len(text)), DoubleDiv(size, 1000))

\* The characters of the model's alphabet that \s matches.
IsSpace(c) == c \in {" ", "\n", "\t"}

\* The members of a set of numbers in increasing order.
Ascending(S) ==
  [j \in 1..Cardinality(S) |-> CHOOSE s \in S : Cardinality({x \in S : x < s}) = j - 1]

\* The matches of /\n\n+/ in text: the maximal runs of two or more "\n",
\* each as <<first, last>>.
ParagraphBreaks(text) ==
  LET n == Len(text)
      IsNewline(i) == i >= 1 /\ i <= n /\ text[i] = "\n"
  IN {<<a, b>> \in (1..n) \X (1..n) :
        /\ a < b
        /\ ~IsNewline(a - 1)
        /\ ~IsNewline(b + 1)
        /\ \A i \in a..b : IsNewline(i)}

\* translatedText.split(/\n\n+/): the pieces between the matches, empty
\* pieces included.
SplitParagraphs(text) ==
  LET breaks == ParagraphBreaks(text)
      firsts == Ascending({m[1] : m \in breaks})
      lasts == Ascending({m[2] : m \in breaks})
      count == Cardinality(breaks)
  IN [j \in 1..(count + 1) |->
        SubSeq(text, IF j = 1 THEN 1 ELSE lasts[j - 1] + 1,
                     IF j = count + 1 THEN Len(text) ELSE firsts[j] - 1)]

\* The maximal runs of non-whitespace in paragraph, each as <<first, last>>.
WordRuns(paragraph) ==
  LET n == Len(paragraph)
      IsInk(i) == i >= 1 /\ i <= n /\ ~IsSpace(paragraph[i])
  IN {<<a, b>> \in (1..n) \X (1..n) :
        /\ a <= b
        /\ ~IsInk(a - 1)
        /\ ~IsInk(b + 1)
        /\ \A i \in a..b : IsInk(i)}

\* paragraph.split(/\s+/).filter(w => w.length > 0)
SplitWords(paragraph) ==
  LET runs == WordRuns(paragraph)
      firsts == Ascending({m[1] : m \in runs})
      lasts == Ascending({m[2] : m \in runs})
  IN [j \in 1..Cardinality(runs) |-> SubSeq(paragraph, firsts[j], lasts[j])]

\* page.drawText(line, {x: margin, y, size: fontSize, ...})
DrawText(calls, line, y) == Append(calls, [text |-> line, y |-> y])

RECURSIVE PackWordsSkipsWord(_, _, _, _, _, _)
\* A word loop that, with no height left, leaves out the word that did not
\* fit and goes on with the next one.
PackWordsSkipsWord(ws, k, line, y, calls, maxWidth) ==
  IF k > Len(ws) THEN [line |-> line, y |-> y, calls |-> calls]
  ELSE LET word == ws[k]
           testLine == IF line # <<>> THEN line \o <<" ">> \o word ELSE word
       IN IF ~DoubleLess(maxWidth, widthOfTextAtSize(testLine, fontSize))
          THEN PackWordsSkipsWord(ws, k + 1, testLine, y, calls, maxWidth)
          ELSE LET calls2 == IF line # <<>> THEN DrawText(calls, line, y) ELSE calls
                   y2 == IF line # <<>> THEN DoubleSub(y, lineHeight) ELSE y
               IN IF DoubleLess(y2, marginPlusLineHeight)
                  THEN PackWordsSkipsWord(ws, k + 1, <<>>, y2, calls2, maxWidth)
                  ELSE PackWordsSkipsWord(ws, k + 1, word, y2, calls2, maxWidth)

RECURSIVE PackWordsOnePerLine(_, _, _, _, _, _)
\* A word loop that starts a new line at every word.
PackWordsOnePerLine(ws, k, line, y, calls, maxWidth) ==
  IF k > Len(ws) THEN [line |-> line, y |-> y, calls |-> calls]
  ELSE LET word == ws[k]
           testLine == IF line # <<>> THEN line \o <<" ">> \o word ELSE word
       IN IF line = <<>> /\ ~DoubleLess(maxWidth, widthOfTextAtSize(testLine, fontSize))
          THEN PackWordsOnePerLine(ws, k + 1, testLine, y, calls, maxWidth)
          ELSE LET calls2 == IF line # <<>> THEN DrawText(calls, line, y) ELSE calls
                   y2 == IF line # <<>> THEN DoubleSub(y, lineHeight) ELSE y
               IN IF DoubleLess(y2, marginPlusLineHeight)
                  THEN [line |-> word, y |-> y2, calls |-> calls2]
                  ELSE PackWordsOnePerLine(ws, k + 1, word, y2, calls2, maxWidth)

RECURSIVE PackWords(_, _, _, _, _, _)
\* for (const word of words) { ... } of one paragraph, from word k on:
\* the line left over, the cursor and the calls made (routes.ts 174-195).
PackWords(ws, k, line, y, calls, maxWidth) ==
  IF k > Len(ws) THEN [line |-> line, y |-> y, calls |-> calls]
  ELSE LET word == ws[k]
           testLine == IF line # <<>> THEN line \o <<" ">> \o word ELSE word
       IN IF ~DoubleLess(maxWidth, widthOfTextAtSize(testLine, fontSize))
          THEN PackWords(ws, k + 1, testLine, y, calls, maxWidth)
          ELSE LET calls2 == IF line # <<>> THEN DrawText(calls, line, y) ELSE calls
                   y2 == IF line # <<>> THEN DoubleSub(y, lineHeight) ELSE y
               IN IF DoubleLess(y2, marginPlusLineHeight)
                  THEN [line |-> word, y |-> y2, calls |-> calls2]
                  ELSE PackWords(ws, k + 1, word, y2, calls2, maxWidth)

RECURSIVE OverlayParagraphs(_, _, _, _, _)
\* for (const paragraph of paragraphs) { ... }, from paragraph p on
\* (routes.ts 170-210).
OverlayParagraphs(paragraphs, p, y, calls, maxWidth) ==
  IF p > Len(paragraphs) THEN calls
  ELSE LET r == PackWords(SplitWords(paragraphs[p]), 1, <<>>, y, calls, maxWidth)
           flush == r.line # <<>> /\ ~DoubleLess(r.y, FromInt(margin))
           calls2 == IF flush THEN DrawText(r.calls, r.line, r.y) ELSE r.calls
           y2 == DoubleSub(IF flush THEN DoubleSub(r.y, lineHeight) ELSE r.y, halfLineHeight)
       IN IF DoubleLess(y2, FromInt(margin)) THEN calls2
          ELSE OverlayParagraphs(paragraphs, p + 1, y2, calls2, maxWidth)

\* An overlay without the early return: an empty text is drawn as an empty
\* line at the top of the page.
OverlayPageDrawsEmpty(size, text) ==
  IF text = <<>> THEN DrawText(<<>>, text, DoubleSub(size.height, FromInt(margin)))
  ELSE OverlayParagraphs(SplitParagraphs(text), 1, DoubleSub(size.height, FromInt(margin)), <<>>,
                         DoubleSub(size.width, FromInt(margin * 2)))

\* The body of pages.forEach for one page (routes.ts 157-210).
OverlayPage(size, text) ==
  IF text = <<>> THEN <<>>
  ELSE OverlayParagraphs(SplitParagraphs(text), 1, DoubleSub(size.height, FromInt(margin)), <<>>,
                         DoubleSub(size.width, FromInt(margin * 2)))

ReflowIdle ==
  /\ pageSize = PageSize(0, 0) /\ translatedText = <<>>
  /\ drawn = <<>> /\ reflowPc = "off"

InitReflow ==
  /\ \/ /\ pageSize \in {PageSize(w, h) : w \in PageWidths, h \in PageHeights}
        /\ translatedText \in SeqsUpTo(Chars, MaxTextLen)
     \/ /\ pageSize \in {PageSize(w, h) : w \in PageWidths, h \in TallPageHeights}
        /\ translatedText \in TallPageTexts
     \/ /\ pageSize \in PaperSizes
        /\ translatedText \in PaperTexts
  /\ drawn = <<>>
  /\ reflowPc = "copied"

\* The overlay of one copied page.
DrawOverlay ==
  /\ reflowPc = "copied"
  /\ drawn' = OverlayPage(pageSize, translatedText)
  /\ reflowPc' = "done"
  /\ UNCHANGED <<pageSize, translatedText, linesVars, variantVars, serverVars, ocrVars>>

(***************************************************************************)
(* The server: routes.ts 99-286.  A request handler runs from one await    *)
(* to the next without interruption; each action below is one such run:    *)
(* it starts when the promise awaited settles and ends at the next await   *)
(* (the per-page loop is cut at every iteration, which only touches the    *)
(* request's own locals).                                                  *)
(***************************************************************************)
MaxPages == 2

\* The instants at which the model looks at the server: the first
\* milliseconds, and the milliseconds around the time to live later.
MaxSlack == 2

\* setTimeout(..., 30 * 60 * 1000)
TTL == 1800000

\* setTimeout counts its delay from the time of the event loop, which the
\* loop last set before the run that calls setTimeout began, not from
\* Date.now(); nothing in the code bounds how far the two are apart.  The
\* model looks at starts of up to MaxLag milliseconds before the first
\* Date.now() of the run.
MaxLag == 1

\* Date.now() at the instants observed.
Instants == (0..MaxSlack) \cup ((TTL - 1)..(TTL + MaxSlack))

\* Math.random().toString(36).substring(7)
RandomSuffixes == {<<"a">>, <<"b">>}

\* Date.now().toString() + Math.random().toString(36).substring(7).  The
\* decimal time is of fixed width over the lifetime of a server, so the
\* concatenation determines both parts: the id is kept as the pair.
JobId(time, suffix) == [time |-> time, suffix |-> suffix]

\* An identifier the server never issued.
UnknownJobId == JobId(0, <<"z", "z">>)

PdfMime == "application/pdf"

\* req.file: <<>> when no file was uploaded.
Uploads(maxPages, mimetypes) ==
  {<<>>} \cup {<<[mimetype |-> m, pages |-> n]>> : m \in mimetypes, n \in 1..maxPages}

NoResponse == <<>>

\* No download asked for yet.
NoDownloads == [last |-> <<>>, served |-> {}]

ErrorResponse(status, message) ==
  <<[status |-> status, error |-> message, jobId |-> UnknownJobId, filename |-> 0,
     pages |-> 0, extractedTexts |-> <<>>, translatedTexts |-> <<>>]>>

\* res.json({jobId, filename, pages, extractedTexts, translatedTexts})
SuccessResponse(jobId, filename, extracted, translated) ==
  <<[status |-> 200, error |-> <<>>, jobId |-> jobId, filename |-> filename,
     pages |-> Len(extracted), extractedTexts |-> extracted, translatedTexts |-> translated]>>

\* The locals of one request.  response is the Response the fetch resolved
\* with while its body is awaited; stored keeps what the route read from the
\* clock when it stored the job.
NewRequest ==
  [pc |-> "new", file |-> <<>>, pages |-> <<>>, extractedTexts |-> <<>>,
   translatedTexts |-> <<>>, cleanedText |-> <<>>, fetched |-> {}, threw |-> {},
   failure |-> "", pdf |-> <<>>, res |-> NoResponse, answered |-> {},
   response |-> <<>>, stored |-> <<>>]

\* A threshold on the text as it came, blanks around it included.
AboveThresholdUntrimmed(pageText) == Len(pageText) > 10

\* routes.ts 120: pageText && pageText.trim().length > 10
AboveThreshold(pageText) == Len(Trim(pageText)) > 10

\* A catch that answers with the fallback message whatever was thrown.
RouteCatchFallback(q, what, error) ==
  [q EXCEPT !.pc = "done", !.failure = what,
            !.res = ErrorResponse(500, <<"T", "r", "a", "n", "s", "l", "a", "t", "i", "o", "n", " ", "f", "a", "i", "l", "e", "d">>)]

\* routes.ts 254-258: the catch of the route.
RouteCatch(q, what, error) ==
  [q EXCEPT !.pc = "done", !.failure = what, !.res = ErrorResponse(500, error.message)]

\* A route that takes a file of any content type.
ReceiveAnyType(r, files) ==
  /\ req[r].pc = "new"
  /\ \E f \in files :
       req' = [req EXCEPT ![r] =
          IF f = <<>>
          THEN [@ EXCEPT !.pc = "done", !.res = ErrorResponse(400, <<"N", "o", " ", "f", "i", "l", "e", " ", "u", "p", "l", "o", "a", "d", "e", "d">>)]
          ELSE [@ EXCEPT !.pc = "ocr", !.file = f]]
  /\ UNCHANGED <<now, translationCache, timers, dl, linesVars, variantVars, reflowVars, ocrVars>>

\* routes.ts 229-240 up to the first await (mistralClient.ocr.process).
Receive(r, files) ==
  /\ req[r].pc = "new"
  /\ \E f \in files :
       req' = [req EXCEPT ![r] =
          IF f = <<>>
          THEN [@ EXCEPT !.pc = "done", !.res = ErrorResponse(400, <<"N", "o", " ", "f", "i", "l", "e", " ", "u", "p", "l", "o", "a", "d", "e", "d">>)]
          ELSE IF f[1].mimetype # PdfMime
          THEN [@ EXCEPT !.pc = "done", !.file = f,
                         !.res = ErrorResponse(400, <<"F", "i", "l", "e", " ", "m", "u", "s", "t", " ", "b", "e", " ", "a", " ", "P", "D", "F">>)]
          ELSE [@ EXCEPT !.pc = "ocr", !.file = f]]
  /\ UNCHANGED <<now, translationCache, timers, dl, linesVars, variantVars, reflowVars, ocrVars>>

\* routes.ts 93-96: the OCR call rejects; translatePdf rejects; 500.
OcrRejects(r) ==
  /\ req[r].pc = "ocr"
  /\ req' = [req EXCEPT ![r] =
        RouteCatch(@, "ocr", Error(<<"O", "C", "R", " ", "p", "r", "o", "c", "e", "s", "s", "i", "n", "g", " ", "f", "a", "i", "l", "e", "d", ":", " ">> \o <<"S", "e", "r", "v", "i", "c", "e", " ", "u", "n", "a", "v", "a", "i", "l", "a", "b", "l", "e">>))]
  /\ UNCHANGED <<now, translationCache, timers, dl, linesVars, variantVars, reflowVars, ocrVars>>

\* routes.ts 84-92, 106-112: (ocrResponse.pages || []).map(page =>
\* ({markdown: page.markdown || "", pageNumber: index + 1})).  The answer of
\* the service has no pages field, or a list of any length.
OcrResolves(r, markdowns, maxOcrPages) ==
  /\ req[r].pc = "ocr"
  /\ \E ocrPages \in {<<>>} \cup
                     {<<l>> : l \in UNION {[1..n -> markdowns] : n \in 0..maxOcrPages}} :
       req' = [req EXCEPT ![r].pc = "page",
                          ![r].pages =
                             IF ocrPages = <<>> THEN <<>>
                             ELSE [k \in DOMAIN ocrPages[1] |->
                                     [markdown |-> OrDefault(ocrPages[1][k], <<>>),
                                      pageNumber |-> k]]]
  /\ UNCHANGED <<now, translationCache, timers, dl, linesVars, variantVars, reflowVars, ocrVars>>

\* An iteration that records a page below the threshold and pushes no
\* translated text for it.
ProcessPageSkipsShort(r) ==
  /\ req[r].pc = "page"
  /\ Len(req[r].extractedTexts) < Len(req[r].pages)
  /\ LET i == Len(req[r].extractedTexts) + 1
         pageText == req[r].pages[i].markdown
         cleanedText == CleanMarkdown(pageText)
     IN req' = [req EXCEPT ![r] =
          IF AboveThreshold(pageText) /\ NeedsFetch(cleanedText)
          THEN [@ EXCEPT !.extractedTexts = Append(@, pageText), !.pc = "fetch",
                         !.cleanedText = cleanedText, !.fetched = @ \cup {i}]
          ELSE IF AboveThreshold(pageText)
          THEN [@ EXCEPT !.extractedTexts = Append(@, pageText), !.pc = "returned"]
          ELSE [@ EXCEPT !.extractedTexts = Append(@, pageText)]]
  /\ UNCHANGED <<now, translationCache, timers, dl, linesVars, variantVars, reflowVars, ocrVars>>

\* routes.ts 114-133 and 140-143: one iteration of the page loop up to its
\* await, or to its end when it has none.  The page is recorded (118).
\* Above the threshold translateWithHuggingFace is called with the cleaned
\* text: it sends the request and the fetch is awaited (27), or, with
\* nothing left to translate after the cleaning, it returns "" at once
\* (23-25) and the await of 133 is pending with translatedTexts one short.
\* Below the threshold "" is pushed (142) in the same run.
ProcessPage(r) ==
  /\ req[r].pc = "page"
  /\ Len(req[r].extractedTexts) < Len(req[r].pages)
  /\ LET i == Len(req[r].extractedTexts) + 1
         pageText == req[r].pages[i].markdown
         cleanedText == CleanMarkdown(pageText)
     IN req' = [req EXCEPT ![r] =
          IF AboveThreshold(pageText) /\ NeedsFetch(cleanedText)
          THEN [@ EXCEPT !.extractedTexts = Append(@, pageText), !.pc = "fetch",
                         !.cleanedText = cleanedText, !.fetched = @ \cup {i}]
          ELSE IF AboveThreshold(pageText)
          THEN [@ EXCEPT !.extractedTexts = Append(@, pageText), !.pc = "returned"]
          ELSE [@ EXCEPT !.extractedTexts = Append(@, pageText),
                         !.translatedTexts = Append(@, <<>>)]]
  /\ UNCHANGED <<now, translationCache, timers, dl, linesVars, variantVars, reflowVars, ocrVars>>

\* routes.ts 133-135: the await of a translateWithHuggingFace that returned
\* "" without a request is over; "" is pushed and the loop goes on.
TranslationReturns(r) ==
  /\ req[r].pc = "returned"
  /\ req' = [req EXCEPT ![r].pc = "page", ![r].translatedTexts = Append(@, <<>>)]
  /\ UNCHANGED <<now, translationCache, timers, dl, linesVars, variantVars, reflowVars, ocrVars>>

\* What the page's try/catch pushes once translateWithHuggingFace has
\* settled for reply (routes.ts 133-139).  answered keeps what the service
\* replied for which page.
PushTranslation(q, reply) ==
  LET outcome == HandleReply(reply)
      i == Len(q.extractedTexts)
  IN [q EXCEPT !.pc = "page", !.cleanedText = <<>>, !.response = <<>>,
               !.translatedTexts = Append(@, TranslatedOrMarker(outcome)),
               !.answered = @ \cup {[page |-> i, reply |-> reply]},
               !.threw = IF outcome.ok THEN @
                         ELSE @ \cup {[page |-> i, error |-> outcome.error]}]

\* routes.ts 27-50: the fetch settles.  A rejection goes to the catch of
\* the page (133-139); a response is asked for its body: response.text()
\* when !response.ok (45), response.json() otherwise (50).
FetchSettles(r, replies) ==
  /\ req[r].pc = "fetch"
  /\ \E reply \in replies :
       req' = [req EXCEPT ![r] =
          IF reply.kind = "reject" THEN PushTranslation(@, reply)
          ELSE [@ EXCEPT !.pc = "body", !.response = <<reply>>]]
  /\ UNCHANGED <<now, translationCache, timers, dl, linesVars, variantVars, reflowVars, ocrVars>>

\* routes.ts 45-62 and 133-139: the body is in (or response.json()
\* rejects); the translation or the failure marker is pushed.
BodySettles(r) ==
  /\ req[r].pc = "body"
  /\ req' = [req EXCEPT ![r] = PushTranslation(@, req[r].response[1])]
  /\ UNCHANGED <<now, translationCache, timers, dl, linesVars, variantVars, reflowVars, ocrVars>>

\* The loop is over (routes.ts 114).
LoopDone(r) == req[r].pc = "page" /\ Len(req[r].extractedTexts) = Len(req[r].pages)

\* The request waits for PDFDocument.load (routes.ts 146), called when the
\* loop is over, for PDFDocument.create (147), embedFont (148) or copyPages
\* (150).
Assembling(r) == LoopDone(r) \/ req[r].pc \in {"create", "embedFont", "copyPages"}

\* routes.ts 146-150: the library call awaited rejects (translatePdf
\* rejects; 500).
AssembleThrows(r) ==
  /\ Assembling(r)
  /\ req' = [req EXCEPT ![r] = RouteCatch(@, "assemble", Error(<<"F", "a", "i", "l", "e", "d", " ", "t", "o", " ", "p", "a", "r", "s", "e", " ", "P", "D", "F", " ", "d", "o", "c", "u", "m", "e", "n", "t">>))]
  /\ UNCHANGED <<now, translationCache, timers, dl, linesVars, variantVars, reflowVars, ocrVars>>

\* routes.ts 146-150: load, create or embedFont resolves and the next
\* library call is made.
AssembleStep(r) ==
  /\ LoopDone(r) \/ req[r].pc \in {"create", "embedFont"}
  /\ req' = [req EXCEPT ![r].pc = IF LoopDone(r) THEN "create"
                                  ELSE IF req[r].pc = "create" THEN "embedFont"
                                  ELSE "copyPages"]
  /\ UNCHANGED <<now, translationCache, timers, dl, linesVars, variantVars, reflowVars, ocrVars>>

\* An assembly that puts a further page behind the copied ones and draws the
\* last text on it again.
AssembleAppendsPage(r, sizes) ==
  /\ req[r].pc = "copyPages"
  /\ \E size \in sizes :
       req' = [req EXCEPT ![r].pc = "saving",
                          ![r].pdf =
          <<[source |-> r,
             pages |-> [p \in 1..(req[r].file[1].pages + 1) |->
                          [size |-> size,
                           calls |-> OverlayPage(size,
                              IF p <= Len(req[r].translatedTexts)
                              THEN req[r].translatedTexts[p]
                              ELSE IF p = req[r].file[1].pages + 1 /\ p > 1
                                      /\ p - 1 <= Len(req[r].translatedTexts)
                              THEN req[r].translatedTexts[p - 1] ELSE <<>>)]]]>>]
  /\ UNCHANGED <<now, translationCache, timers, dl, linesVars, variantVars, reflowVars, ocrVars>>

\* routes.ts 150-213: copyPages resolves; the pages of the uploaded
\* document are added, page index gets the overlay of
\* translatedTexts[index] || "", and pdfDoc.save() is called.
Assemble(r, sizes) ==
  /\ req[r].pc = "copyPages"
  /\ \E size \in sizes :
       req' = [req EXCEPT ![r].pc = "saving",
                          ![r].pdf =
          <<[source |-> r,
             pages |-> [p \in 1..req[r].file[1].pages |->
                          [size |-> size,
                           calls |-> OverlayPage(size,
                              IF p <= Len(req[r].translatedTexts)
                              THEN req[r].translatedTexts[p] ELSE <<>>)]]]>>]
  /\ UNCHANGED <<now, translationCache, timers, dl, linesVars, variantVars, reflowVars, ocrVars>>

\* routes.ts 213: pdfDoc.save() rejects.
SaveThrows(r) ==
  /\ req[r].pc = "saving"
  /\ req' = [req EXCEPT ![r] = RouteCatch([@ EXCEPT !.pdf = <<>>], "save", Error(<<"F", "a", "i", "l", "e", "d", " ", "t", "o", " ", "s", "a", "v", "e">>))]
  /\ UNCHANGED <<now, translationCache, timers, dl, linesVars, variantVars, reflowVars, ocrVars>>

\* A store that drops the entry.
CacheSetNothing(cache, jobId, entry) == cache

\* translationCache.set(jobId, {...result, timestamp: Date.now()})
CacheSet(cache, jobId, entry) == (jobId :> entry) @@ cache

\* translationCache.delete(jobId)
CacheDelete(cache, jobId) == [j \in DOMAIN cache \ {jobId} |-> cache[j]]

\* setTimeout(() => translationCache.delete(jobId), 30 * 60 * 1000), the
\* runtime counting the delay from time at.
ScheduleEviction(ts, jobId, r, at) == ts \cup {[jobId |-> jobId, due |-> at + TTL, by |-> r]}

\* Date.now() read again later in the same run: the clock has not moved, or
\* it has turned by a few milliseconds, whatever timers are pending (no
\* callback runs inside a run).
ClockMayReach(later) == later >= now /\ later - now <= MaxSlack

\* routes.ts 213-218 and 240-253: save resolves, translatePdf returns, the
\* route stores the job, schedules its eviction and answers.  Date.now() is
\* read for the identifier (242) and again for the timestamp (243); the
\* timer (245) counts from the time the runtime goes by: the time of the
\* event loop, set before the run began, and at the latest the clock at the
\* call of setTimeout.  The run ends at the later of the times read.
SaveAndRespond(r, suffixes) ==
  /\ req[r].pc = "saving"
  /\ \E suffix \in suffixes, stamped \in Instants,
        started \in (now - MaxLag)..(now + MaxSlack) :
       LET jobId == JobId(now, suffix)
           result == [translatedPdf |-> req[r].pdf[1],
                      extractedTexts |-> req[r].extractedTexts,
                      translatedTexts |-> req[r].translatedTexts,
                      timestamp |-> stamped]
       IN /\ ClockMayReach(stamped)
          /\ started <= stamped \/ started \in Instants
          /\ translationCache' = CacheSet(translationCache, jobId, result)
          /\ timers' = ScheduleEviction(timers, jobId, r, started)
          /\ now' = (IF started > stamped THEN started ELSE stamped)
          /\ req' = [req EXCEPT ![r].pc = "done",
                                ![r].stored = <<[timestamp |-> stamped]>>,
                                ![r].res = SuccessResponse(jobId, r,
                                   req[r].extractedTexts, req[r].translatedTexts)]
  /\ UNCHANGED <<dl, linesVars, variantVars, reflowVars, ocrVars>>

\* The callback of a timer runs: translationCache.delete(jobId).  The event
\* loop runs it once the delay has passed since the time the timer counts
\* from, and as late after that as the loop gets to it.
TimerFires ==
  /\ \E t \in timers :
       /\ t.due <= now
       /\ translationCache' = CacheDelete(translationCache, t.jobId)
       /\ timers' = timers \ {t}
  /\ UNCHANGED <<now, req, job, dl, linesVars, variantVars, reflowVars>>

\* Time passes, whatever timers are pending: a callback that is due waits
\* until the loop runs it.
Tick(instants) ==
  /\ \E later \in instants :
       /\ later > now
       /\ now' = later
  /\ UNCHANGED <<translationCache, timers, req, job, dl, linesVars, variantVars, reflowVars>>

\* A lookup that also removes the entry it found.
DownloadResponseTakes(cache, jobId) ==
  IF jobId \in DOMAIN cache
  THEN [status |-> 200, body |-> <<cache[jobId].translatedPdf>>,
        cache |-> CacheDelete(cache, jobId)]
  ELSE [status |-> 404, body |-> <<>>, cache |-> cache]

\* routes.ts 262-275: the answer to GET /api/download/:jobId, and the cache
\* after it.
DownloadResponse(cache, jobId) ==
  IF jobId \in DOMAIN cache
  THEN [status |-> 200, body |-> <<cache[jobId].translatedPdf>>, cache |-> cache]
  ELSE [status |-> 404, body |-> <<>>, cache |-> cache]

\* The identifiers handed out so far.
IssuedJobIds ==
  {req[r].res[1].jobId : r \in {q \in DOMAIN req : req[q].res # NoResponse /\ req[q].res[1].status = 200}}

\* A client asks for a document (routes.ts 262-282).  dl is what the
\* clients have seen: the last answer, and the identifiers served so far.
Download ==
  /\ \E jobId \in IssuedJobIds \cup {UnknownJobId} :
       LET response == DownloadResponse(translationCache, jobId) IN
         /\ dl' = [last |-> <<[jobId |-> jobId, status |-> response.status,
                               body |-> response.body]>>,
                   served |-> IF response.status = 200 THEN dl.served \cup {jobId}
                              ELSE dl.served]
         /\ translationCache' = response.cache
  /\ UNCHANGED <<now, timers, req, linesVars, variantVars, reflowVars, ocrVars>>

ServerIdle ==
  /\ now = 0 /\ translationCache = <<>> /\ timers = {} /\ req = <<>> /\ dl = NoDownloads

InitServer(requests) ==
  /\ now = 0
  /\ translationCache = <<>>
  /\ timers = {}
  /\ req = [r \in requests |-> NewRequest]
  /\ dl = NoDownloads

(***************************************************************************)
(* Spec: two requests, documents of one page, the clock and the timers.    *)
(***************************************************************************)
SrvRequests == {1, 2}
SrvMarkdowns == {<<<<"k", "a", " ", "k", "h", "a", " ", "g", "a", " ", "g", "h", "a">>>>, <<<<"[", " ", " ", " ", " ", " ", " ", "]", "(", "x", "x", "x", "x", ")">>>>}
SrvReplies == {HfReply("array", 1, <<>>, <<<<"i", " ", "i">>>>)}
SrvSizes == {PageSize(5500, 6200)}

SrvReceive == \E r \in SrvRequests : Receive(r, Uploads(1, {PdfMime}))
SrvOcrRejects == \E r \in SrvRequests : OcrRejects(r)
SrvOcrResolves == \E r \in SrvRequests : OcrResolves(r, SrvMarkdowns, 1)
SrvProcessPage == \E r \in SrvRequests : ProcessPage(r)

SrvTranslationReturns == \E r \in SrvRequests : TranslationReturns(r)
SrvFetchSettles == \E r \in SrvRequests : FetchSettles(r, SrvReplies)
SrvBodySettles == \E r \in SrvRequests : BodySettles(r)
SrvAssembleThrows == \E r \in SrvRequests : AssembleThrows(r)
SrvAssembleStep == \E r \in SrvRequests : AssembleStep(r)
SrvAssemble == \E r \in SrvRequests : Assemble(r, SrvSizes)
SrvSaveThrows == \E r \in SrvRequests : SaveThrows(r)
SrvSaveAndRespond == \E r \in SrvRequests : SaveAndRespond(r, RandomSuffixes)

SrvTick == Tick(Instants)

(***************************************************************************)
(* SpecJob: one request, documents of up to MaxPages pages, every kind of  *)
(* page text and of reply.                                                 *)
(***************************************************************************)
JobMarkdowns ==
  {<<>>, <<<<" ", " ", "k", "a", " ", "k", "h", "a", " ", "g", "a", " ", " ", " ">>>>, <<<<"#", " ", "k", "a", " ", "*", "k", "h", "a", "*", " ", "g", "a">>>>,
   <<<<"[", "a", "]", "(", "b", ")", " ", "k", "a", " ", "k", "h", "a", " ", "g", "a">>>>, <<<<"[", " ", " ", " ", " ", " ", " ", "]", "(", "x", "x", "x", "x", ")">>>>}
JobReplies ==
  {HfReply("reject", 0, <<>>, <<>>),
   HfReply("http", 0, <<"5", "0", "3">>, <<<<"b", "u", "s", "y">>>>),
   HfReply("badjson", 0, <<>>, <<>>),
   HfReply("array", 0, <<>>, <<>>),
   HfReply("array", 1, <<>>, <<<<"i", " ", "i">>>>),
   HfReply("array", 1, <<>>, <<<<>>>>),
   HfReply("object", 0, <<>>, <<<<"m">>>>),
   HfReply("object", 0, <<>>, <<>>),
   HfReply("string", 0, <<>>, <<<<>>>>)}
JobSizes == {PageSize(5500, 6200)}

JobReceive == Receive(1, Uploads(MaxPages, {PdfMime, "image/png"}))
JobOcrRejects == OcrRejects(1)
JobOcrResolves == OcrResolves(1, JobMarkdowns, MaxPages)
JobProcessPage == ProcessPage(1)

JobTranslationReturns == TranslationReturns(1)
JobFetchSettles == FetchSettles(1, JobReplies)
JobBodySettles == BodySettles(1)
JobAssembleThrows == AssembleThrows(1)
JobAssembleStep == AssembleStep(1)
JobAssemble == Assemble(1, JobSizes)
JobSaveThrows == SaveThrows(1)
JobSaveAndRespond == SaveAndRespond(1, {<<"a">>})

\* The instants at which the job is looked at: its start, and the time to
\* live later.
JobInstants == {0, TTL}
JobTick == Tick(JobInstants)

(***************************************************************************)
(* The Tesseract version of the job: translatePdf and POST /api/translate, *)
(* replit.md 638-809.  The handler is cut at its awaits; the drawing on    *)
(* the pages of the document (replit.md 712-765) is left out: the document *)
(* is kept as its number of pages.                                         *)
(***************************************************************************)
\* result.data of worker.recognize: confidence and words may be missing.
TessOutputs ==
  {[confidence |-> <<90>>, text |-> <<"k", "a", " ", "k", "h", "a", " ", "g", "a", " ", "g", "h", "a">>,
    words |-> <<<<[text |-> <<<<"k", "a">>>>, y0 |-> <<10>>], [text |-> <<<<"k", "h", "a">>>>, y0 |-> <<40>>]>>>>],
   [confidence |-> <<40>>, text |-> <<"k", "a", " ", "k", "h", "a", " ", "g", "a", " ", "g", "h", "a">>, words |-> NoWordList],
   [confidence |-> <<>>, text |-> <<>>, words |-> NoWordList]}

TessReplies == {HfReply("reject", 0, <<>>, <<>>), HfReply("array", 1, <<>>, <<<<"i", " ", "i">>>>)}

\* The locals of the job.  response is the Response the fetch resolved with
\* while its body is awaited.
NewJob ==
  [pc |-> "new", numPages |-> 0, created |-> 0, terminated |-> 0, results |-> <<>>,
   lines |-> <<>>, extractedTexts |-> <<>>, translatedTexts |-> <<>>, failed |-> {},
   pending |-> <<>>, res |-> NoResponse, ocrResults |-> <<>>, sent |-> <<>>,
   response |-> <<>>]

\* replit.md 802-808: the catch of the route.
TessCatch(j, error) == [j EXCEPT !.pc = "done", !.res = ErrorResponse(500, error.message)]

\* An exception inside the try of replit.md 670-695 on page k: no catch is
\* on its way but the finally block, which runs with the exception pending.
TessThrowInLoop(j, k, what, error) ==
  [j EXCEPT !.pc = "finally", !.pending = <<error>>,
            !.failed = @ \cup {[page |-> k, what |-> what]}]

\* A pipeline that leaves the loop one page early.
TessNextPcLeavesEarly(j, pushed) == IF pushed < j.numPages - 1 THEN "pageLoad" ELSE "finally"

\* The loop of replit.md 671 after an iteration: the next page is asked for
\* (extractTextFromPdfPage up to its first await, 509), or the finally block
\* is entered.
TessNextPc(j, pushed) == IF pushed < j.numPages THEN "pageLoad" ELSE "finally"

RECURSIVE JoinLines(_, _)
\* ocrResult.lines.map(line => line.text).join('\n')
JoinLines(ls, k) ==
  IF k > Len(ls) THEN <<>>
  ELSE IF k = Len(ls) THEN ls[k].text
  ELSE ls[k].text \o <<"\n">> \o JoinLines(ls, k + 1)

\* replit.md 564-634: what extractTextFromPdfPage returns for the results
\* of the two variants.
ExtractResult(rs) ==
  LET sorted == SortByConfidence(rs)
      best == sorted[1].result
  IN [text |-> Trim(best.text), confidence |-> sorted[1].confidence,
      lines |-> ReconstructLines(MapWords(best.words))]

\* replit.md 780-789 and 639-644: the checks of the route, then translatePdf
\* up to loadingTask.promise.
TessReceive(files) ==
  /\ job.pc = "new"
  /\ \E f \in files :
       job' = IF f = <<>>
              THEN [job EXCEPT !.pc = "done", !.res = ErrorResponse(400, <<"N", "o", " ", "f", "i", "l", "e", " ", "u", "p", "l", "o", "a", "d", "e", "d">>)]
              ELSE IF f[1].mimetype # PdfMime
              THEN [job EXCEPT !.pc = "done", !.res = ErrorResponse(400, <<"F", "i", "l", "e", " ", "m", "u", "s", "t", " ", "b", "e", " ", "a", " ", "P", "D", "F">>)]
              ELSE [job EXCEPT !.pc = "load", !.numPages = f[1].pages]
  /\ UNCHANGED <<linesVars, variantVars, reflowVars, serverVars>>

\* replit.md 644: loadingTask.promise rejects.
TessLoadThrows ==
  /\ job.pc = "load"
  /\ job' = TessCatch(job, Error(<<"I", "n", "v", "a", "l", "i", "d", " ", "P", "D", "F", " ", "s", "t", "r", "u", "c", "t", "u", "r", "e">>))
  /\ UNCHANGED <<linesVars, variantVars, reflowVars, serverVars>>

\* replit.md 644-650: the document is loaded; createWorker is called.
TessLoad ==
  /\ job.pc = "load"
  /\ job' = [job EXCEPT !.pc = "create"]
  /\ UNCHANGED <<linesVars, variantVars, reflowVars, serverVars>>

\* replit.md 650: createWorker rejects; no worker exists.
TessCreateWorkerThrows ==
  /\ job.pc = "create"
  /\ job' = TessCatch(job, Error(<<"F", "a", "i", "l", "e", "d", " ", "t", "o", " ", "l", "o", "a", "d", " ", "l", "a", "n", "g", "u", "a", "g", "e", " ", "a", "s", "m">>))
  /\ UNCHANGED <<linesVars, variantVars, reflowVars, serverVars>>

\* replit.md 650-658: the worker exists; setParameters is called.
TessCreateWorker ==
  /\ job.pc = "create"
  /\ job' = [job EXCEPT !.pc = "configure", !.created = @ + 1]
  /\ UNCHANGED <<linesVars, variantVars, reflowVars, serverVars>>

\* replit.md 658: setParameters rejects, outside of the try of line 670.
TessSetParametersThrows ==
  /\ job.pc = "configure"
  /\ job' = TessCatch(job, Error(<<"F", "a", "i", "l", "e", "d", " ", "t", "o", " ", "s", "e", "t", " ", "p", "a", "r", "a", "m", "e", "t", "e", "r", "s">>))
  /\ UNCHANGED <<linesVars, variantVars, reflowVars, serverVars>>

\* replit.md 658-673 and 503-509: the worker is configured, the loop is
\* entered and the document is loaded again for the first page.
TessSetParameters ==
  /\ job.pc = "configure"
  /\ job' = [job EXCEPT !.pc = "pageLoad"]
  /\ UNCHANGED <<linesVars, variantVars, reflowVars, serverVars>>

\* replit.md 509, 510, 525, 621: loadingTask.promise, getPage, render or the
\* second getPage rejects.
TessRenderThrows ==
  /\ job.pc \in {"pageLoad", "getPage", "render", "pageSize"}
  /\ job' = TessThrowInLoop(job, Len(job.extractedTexts) + 1, "render", Error(<<"F", "a", "i", "l", "e", "d", " ", "t", "o", " ", "r", "e", "n", "d", "e", "r", " ", "p", "a", "g", "e">>))
  /\ UNCHANGED <<linesVars, variantVars, reflowVars, serverVars>>

\* replit.md 509-525: the document is loaded and getPage is called, or the
\* page is there and its rendering is started.
TessPageStep ==
  /\ job.pc \in {"pageLoad", "getPage"}
  /\ job' = [job EXCEPT !.pc = IF job.pc = "pageLoad" THEN "getPage" ELSE "render"]
  /\ UNCHANGED <<linesVars, variantVars, reflowVars, serverVars>>

\* replit.md 525-538: the page is rendered; the loop over the variants
\* starts and sharp is asked for the first image.
TessRender ==
  /\ job.pc = "render"
  /\ job' = [job EXCEPT !.pc = "sharp", !.results = <<>>]
  /\ UNCHANGED <<linesVars, variantVars, reflowVars, serverVars>>

\* replit.md 538-540: preprocessImageForOCR resolves (with the enhanced
\* image, or with the raw one when sharp threw) and the image is handed to
\* worker.recognize.
TessPreprocess ==
  /\ job.pc = "sharp"
  /\ job' = [job EXCEPT !.pc = "recognize"]
  /\ UNCHANGED <<linesVars, variantVars, reflowVars, serverVars>>

\* replit.md 540: worker.recognize rejects.
TessRecognizeThrows ==
  /\ job.pc = "recognize"
  /\ job' = TessThrowInLoop(job, Len(job.extractedTexts) + 1, "recognize", Error(<<"R", "e", "c", "o", "g", "n", "i", "t", "i", "o", "n", " ", "f", "a", "i", "l", "e", "d">>))
  /\ UNCHANGED <<linesVars, variantVars, reflowVars, serverVars>>

\* replit.md 540-621: worker.recognize resolves for a variant.  After the
\* first variant sharp is asked for the next image; after the last one the
\* results are sorted, the lines are built and getPage is called again.
TessRecognize(outputs) ==
  /\ job.pc = "recognize"
  /\ \E data \in outputs :
       LET call == Len(job.results) + 1
           rs == Append(job.results,
                   [variant |-> Variants[call],
                    result |-> [call |-> call, confidence |-> data.confidence,
                                text |-> data.text, words |-> data.words],
                    confidence |-> OrDefault(data.confidence, 0)])
       IN job' =
            IF call < Len(Variants) THEN [job EXCEPT !.pc = "sharp", !.results = rs]
            ELSE [job EXCEPT !.pc = "pageSize", !.results = SortByConfidence(rs),
                             !.lines = ExtractResult(rs).lines]
  /\ UNCHANGED <<linesVars, variantVars, reflowVars, serverVars>>

\* replit.md 621-634 and 673-693: getPage resolves, extractTextFromPdfPage
\* returns and translatePdf goes on to its next await.  The result and its
\* text are recorded (675-676).  For a text longer than 10 characters
\* translateWithHuggingFace is called with the lines joined: it sends the
\* request and the fetch is awaited, or, the lines being empty or blank, it
\* returns "" at once (118-120) and the await of 683 is pending with
\* translatedTexts one short.  For a shorter text "" is pushed (692) in the
\* same run and the next page or the finally block follows.  ocrResults is
\* the array of line 674; sent lists the inputs of the translation requests
\* made (the body of the POST).
TessPageDone ==
  /\ job.pc = "pageSize"
  /\ LET ocrResult == ExtractResult(job.results)
         pushed == Len(job.extractedTexts) + 1
     IN job' =
          IF Len(ocrResult.text) > 10 /\ NeedsFetch(JoinLines(ocrResult.lines, 1))
          THEN [job EXCEPT !.pc = "translate",
                           !.ocrResults = Append(@, ocrResult),
                           !.sent = Append(@, [page |-> pushed,
                                      inputs |-> JoinLines(ocrResult.lines, 1)]),
                           !.extractedTexts = Append(@, ocrResult.text)]
          ELSE IF Len(ocrResult.text) > 10
          THEN [job EXCEPT !.pc = "returned",
                           !.ocrResults = Append(@, ocrResult),
                           !.extractedTexts = Append(@, ocrResult.text)]
          ELSE [job EXCEPT !.pc = TessNextPc(job, pushed),
                           !.ocrResults = Append(@, ocrResult),
                           !.extractedTexts = Append(@, ocrResult.text),
                           !.translatedTexts = Append(@, <<>>)]
  /\ UNCHANGED <<linesVars, variantVars, reflowVars, serverVars>>

\* replit.md 683-685: the await of a translateWithHuggingFace that returned
\* "" without a request is over; "" is pushed and the next page or the
\* finally block follows.
TessTranslationReturns ==
  /\ job.pc = "returned"
  /\ job' = [job EXCEPT !.pc = TessNextPc(job, Len(job.extractedTexts)),
                        !.translatedTexts = Append(@, <<>>)]
  /\ UNCHANGED <<linesVars, variantVars, reflowVars, serverVars>>

\* replit.md 681-689: what the page's try/catch pushes once
\* translateWithHuggingFace has settled for reply.
TessPushTranslation(j, reply) ==
  [j EXCEPT !.pc = TessNextPc(j, Len(j.extractedTexts)), !.response = <<>>,
            !.translatedTexts = Append(@, TranslatedOrMarker(HandleReply(reply)))]

\* replit.md 460-485: the fetch settles.  A rejection goes to the catch of
\* the page; a response is asked for its body (response.text() at 480,
\* response.json() at 485).
TessFetchSettles(replies) ==
  /\ job.pc = "translate"
  /\ \E reply \in replies :
       job' = IF reply.kind = "reject" THEN TessPushTranslation(job, reply)
              ELSE [job EXCEPT !.pc = "body", !.response = <<reply>>]
  /\ UNCHANGED <<linesVars, variantVars, reflowVars, serverVars>>

\* replit.md 480-496 and 681-689: the body is in; the translation or the
\* failure marker is pushed.
TessBodySettles ==
  /\ job.pc = "body"
  /\ job' = TessPushTranslation(job, job.response[1])
  /\ UNCHANGED <<linesVars, variantVars, reflowVars, serverVars>>

\* replit.md 695-700: worker.terminate() resolves.  A pending exception
\* goes on to the catch of the route; otherwise PDFDocument.load is called.
TessTerminate ==
  /\ job.pc = "finally"
  /\ job' = IF job.pending # <<>>
            THEN TessCatch([job EXCEPT !.terminated = @ + 1], job.pending[1])
            ELSE [job EXCEPT !.pc = "pdfLoad", !.terminated = @ + 1]
  /\ UNCHANGED <<linesVars, variantVars, reflowVars, serverVars>>

\* replit.md 696: worker.terminate() rejects: its error leaves the finally
\* block in place of a pending one and reaches the catch of the route.
TessTerminateRejects ==
  /\ job.pc = "finally"
  /\ job' = TessCatch(job, Error(<<"W", "o", "r", "k", "e", "r", " ", "a", "l", "r", "e", "a", "d", "y", " ", "t", "e", "r", "m", "i", "n", "a", "t", "e", "d">>))
  /\ UNCHANGED <<linesVars, variantVars, reflowVars, serverVars>>

\* replit.md 700-767: load, create, embedFont, copyPages or save rejects.
TessBuildThrows ==
  /\ job.pc \in {"pdfLoad", "pdfCreate", "pdfFont", "pdfCopy", "pdfSave"}
  /\ job' = TessCatch(job, Error(<<"I", "n", "v", "a", "l", "i", "d", " ", "P", "D", "F", " ", "s", "t", "r", "u", "c", "t", "u", "r", "e">>))
  /\ UNCHANGED <<linesVars, variantVars, reflowVars, serverVars>>

\* replit.md 700-767: load, create, embedFont or copyPages resolves and the
\* next library call is made (after copyPages the pages are added and drawn
\* on, and save is called).
TessBuildStep ==
  /\ job.pc \in {"pdfLoad", "pdfCreate", "pdfFont", "pdfCopy"}
  /\ job' = [job EXCEPT !.pc = IF job.pc = "pdfLoad" THEN "pdfCreate"
                               ELSE IF job.pc = "pdfCreate" THEN "pdfFont"
                               ELSE IF job.pc = "pdfFont" THEN "pdfCopy"
                               ELSE "pdfSave"]
  /\ UNCHANGED <<linesVars, variantVars, reflowVars, serverVars>>

\* replit.md 767-801: save resolves, translatePdf returns, and the route
\* stores the job, schedules its eviction and answers.  Date.now() is read
\* for the identifier (791) and for the timestamp (792); the timer (794)
\* counts from the time the runtime goes by.  The run ends at the later of
\* the times read.
TessBuildAndRespond(suffixes) ==
  /\ job.pc = "pdfSave"
  /\ \E suffix \in suffixes, stamped \in Instants,
        started \in (now - MaxLag)..(now + MaxSlack) :
       LET jobId == JobId(now, suffix)
           result == [translatedPdf |-> [source |-> 0, pages |-> job.numPages],
                      extractedTexts |-> job.extractedTexts,
                      translatedTexts |-> job.translatedTexts,
                      timestamp |-> stamped]
       IN /\ ClockMayReach(stamped)
          /\ started <= stamped \/ started \in Instants
          /\ translationCache' = CacheSet(translationCache, jobId, result)
          /\ timers' = ScheduleEviction(timers, jobId, 0, started)
          /\ now' = (IF started > stamped THEN started ELSE stamped)
          /\ job' = [job EXCEPT !.pc = "done",
                                !.res = SuccessResponse(jobId, 0, job.extractedTexts,
                                                        job.translatedTexts)]
  /\ UNCHANGED <<req, dl, linesVars, variantVars, reflowVars>>

OcrIdle == job = <<>>

InitOcr == job = NewJob

OcrReceive == TessReceive(Uploads(MaxPages, {PdfMime, "image/png"}))
OcrRecognize == TessRecognize(TessOutputs)
OcrFetchSettles == TessFetchSettles(TessReplies)
OcrBuildAndRespond == TessBuildAndRespond(RandomSuffixes)

OcrTick == Tick(Instants)

(***************************************************************************)
(* Specifications.                                                         *)
(***************************************************************************)
StartLines == InitLines /\ VariantsIdle /\ ReflowIdle /\ ServerIdle /\ OcrIdle

NextLines == Reconstruct

SpecLines == StartLines /\ [][NextLines]_vars

StartVariants == InitVariants /\ LinesIdle /\ ReflowIdle /\ ServerIdle /\ OcrIdle

NextVariants == PreprocessVariant \/ RecognizeVariant \/ RecognizeThrows \/ SelectBest

SpecVariants == StartVariants /\ [][NextVariants]_vars

StartReflow == InitReflow /\ LinesIdle /\ VariantsIdle /\ ServerIdle /\ OcrIdle

NextReflow == DrawOverlay

SpecReflow == StartReflow /\ [][NextReflow]_vars

Init == InitServer(SrvRequests) /\ LinesIdle /\ VariantsIdle /\ ReflowIdle /\ OcrIdle

Next ==
  \/ SrvReceive \/ SrvOcrRejects \/ SrvOcrResolves \/ SrvProcessPage \/ SrvTranslationReturns
  \/ SrvFetchSettles
  \/ SrvBodySettles \/ SrvAssembleThrows \/ SrvAssembleStep \/ SrvAssemble \/ SrvSaveThrows \/ SrvSaveAndRespond
  \/ TimerFires \/ SrvTick \/ Download

Spec == Init /\ [][Next]_vars

StartJob == InitServer({1}) /\ LinesIdle /\ VariantsIdle /\ ReflowIdle /\ OcrIdle

NextJob ==
  \/ JobReceive \/ JobOcrRejects \/ JobOcrResolves \/ JobProcessPage \/ JobTranslationReturns
  \/ JobFetchSettles
  \/ JobBodySettles \/ JobAssembleThrows \/ JobAssembleStep \/ JobAssemble \/ JobSaveThrows \/ JobSaveAndRespond
  \/ TimerFires \/ JobTick \/ Download

SpecJob == StartJob /\ [][NextJob]_vars

StartOcr == InitOcr /\ InitServer({}) /\ LinesIdle /\ VariantsIdle /\ ReflowIdle

NextOcr ==
  \/ OcrReceive \/ TessLoadThrows \/ TessLoad \/ TessCreateWorkerThrows \/ TessCreateWorker
  \/ TessSetParametersThrows \/ TessSetParameters \/ TessRenderThrows \/ TessPageStep
  \/ TessRender \/ TessPreprocess \/ TessRecognizeThrows \/ OcrRecognize \/ TessPageDone
  \/ TessTranslationReturns
  \/ OcrFetchSettles \/ TessBodySettles \/ TessTerminate \/ TessTerminateRejects
  \/ TessBuildThrows \/ TessBuildStep \/ OcrBuildAndRespond
  \/ TimerFires \/ OcrTick

SpecOcr == StartOcr /\ [][NextOcr]_vars

(***************************************************************************)
(* Claims about line reconstruction (SpecLines).                           *)
(***************************************************************************)
\* The positions <<line, index>> of the reconstructed lines.
LinePositions == UNION {{<<a, b>> : b \in DOMAIN lines[a].words} : a \in DOMAIN lines}

\* The positions at which input word k occurs.
Occurrences(k) == {p \in LinePositions : lines[p[1]].words[p[2]].id = k}

RECURSIVE FlattenLines(_, _)
\* The member words of lines a, a+1, ... in order.
FlattenLines(ls, a) == IF a > Len(ls) THEN <<>> ELSE ls[a].words \o FlattenLines(ls, a + 1)

\* The index of the line holding the k-th walked word.
LineOfWalked(k) ==
  CHOOSE a \in DOMAIN lines :
    /\ Len(FlattenLines(SubSeq(lines, 1, a - 1), 1)) < k
    /\ k <= Len(FlattenLines(SubSeq(lines, 1, a), 1))

\* C8: the reconstructed lines partition the input words: at most as many
\* lines as words, every line non-empty and made of input words, every input
\* word in exactly one line at exactly one position, zero words give zero
\* lines.
C8_LinesPartitionWords ==
  linesPc = "done" =>
    /\ Len(words) = (IF rawWords = NoWordList THEN 0 ELSE Len(rawWords[1]))
    /\ Len(lines) <= Len(words)
    /\ \A p \in LinePositions :
         LET w == lines[p[1]].words[p[2]] IN w.id \in DOMAIN words /\ words[w.id] = w
    /\ \A k \in DOMAIN words : Cardinality(Occurrences(k)) = 1
    /\ \A a \in DOMAIN lines : Len(lines[a].words) > 0
    /\ (Len(words) = 0 => lines = <<>>)

C8_Witness ==
  /\ linesPc = "done"
  /\ Len(words) = MaxWords
  /\ Len(lines) = 2

\* Scenario D: words with y0 = 10, 11, 40 give the lines {10, 11} and {40}.
ScenarioD ==
  [k \in DOMAIN words |-> words[k].y0] = <<10, 11, 40>> =>
    [a \in DOMAIN lines |-> [b \in DOMAIN lines[a].words |-> lines[a].words[b].y0]]
      = << <<10, 11>>, <<40>> >>

\* The walk of the words in the order of the lines is by ascending y0, and
\* two neighbours of the walk share a line exactly when Together(d) holds of
\* the distance d of their top edges; otherwise the later one opens the
\* next line.
ClusteredBy(Together(_)) ==
  LET walked == FlattenLines(lines, 1) IN
    /\ Len(walked) = Len(words)
    /\ \A k \in 2..Len(walked) :
         LET d == Abs(walked[k].y0 - walked[k - 1].y0) IN
           /\ walked[k - 1].y0 <= walked[k].y0
           /\ IF Together(d)
              THEN LineOfWalked(k) = LineOfWalked(k - 1)
              ELSE LineOfWalked(k) = LineOfWalked(k - 1) + 1

WithinTolerance(d) == d <= yTolerance
\* C9: a new line starts exactly when the top edges differ by
\* more than the tolerance; a difference of at most the tolerance appends.
C9_NewLineAboveTolerance ==
  linesPc = "done" => ClusteredBy(WithinTolerance) /\ ScenarioD

(***************************************************************************)
(* Claims about the variant selector (SpecVariants).                       *)
(***************************************************************************)
\* C10: the selector returns exactly one of the recognition results, one of
\* the highest confidence among the variants tried; of two results of equal
\* confidence the one of the earlier variant (grayscale before adaptive) is
\* returned; a missing confidence counts as 0.
C10_SelectsHighestConfidenceFirstVariant ==
  varPc = "selected" =>
    /\ Len(bestResult) = 1
    /\ Len(results) = Len(Variants)
    /\ \A k \in DOMAIN results :
         /\ results[k].variant = Variants[results[k].result.call]
         /\ results[k].confidence = OrDefault(results[k].result.confidence, 0)
    /\ \E k \in DOMAIN results :
         /\ bestResult[1] = results[k].result
         /\ \A j \in DOMAIN results :
              /\ results[j].confidence <= results[k].confidence
              /\ results[j].confidence = results[k].confidence
                   => results[k].result.call <= results[j].result.call

\* A tie between a missing confidence (grayscale) and a confidence of 0
\* (adaptive), resolved for grayscale.
C10_Witness ==
  /\ varPc = "selected"
  /\ \E k, j \in DOMAIN results :
       /\ results[k].variant = "grayscale" /\ results[k].result.confidence = <<>>
       /\ results[j].variant = "adaptive" /\ results[j].result.confidence = <<0>>
  /\ bestResult[1].call = 1


(***************************************************************************)
(* Claims about the overlay renderer (SpecReflow).                         *)
(***************************************************************************)
\* C6: every line drawn has a rendered width (Helvetica, fontSize) of at
\* most pageWidth - 2 * margin.
C6_DrawnLinesFitWidth ==
  reflowPc = "done" =>
    \A k \in DOMAIN drawn :
      ~DoubleLess(DoubleSub(pageSize.width, FromInt(2 * margin)),
                  widthOfTextAtSize(drawn[k].text, fontSize))

\* C7: every line drawn is drawn at a vertical position y >= margin.
C7_DrawnLinesAboveMargin ==
  reflowPc = "done" => \A k \in DOMAIN drawn : ~DoubleLess(drawn[k].y, FromInt(margin))

(***************************************************************************)
(* Claims about one translation job (SpecJob).                             *)
(***************************************************************************)
\* text reads "[Translation failed: " + String(error) + "]".
HasMarkerForm(text, error) ==
  LET prefix == <<"[", "T", "r", "a", "n", "s", "l", "a", "t", "i", "o", "n", " ", "f", "a", "i", "l", "e", "d", ":", " ">>
      detail == ErrorToString(error)
  IN /\ Len(text) = Len(prefix) + Len(detail) + 1
     /\ SubSeq(text, 1, Len(prefix)) = prefix
     /\ SubSeq(text, Len(prefix) + 1, Len(text) - 1) = detail
     /\ text[Len(text)] = "]"

\* C1: when the translation call of a page above the threshold throws, the
\* page's translated text is "[Translation failed: <error>]", the loop goes
\* on to the pages behind it, and, unless the assembly or the saving of the
\* document fails afterwards, the request is answered with 200, every page
\* listed, and the identifier of the answer is found by the download for as
\* long as the eviction timer of the request has not run.
C1_TranslationFailureIsolated ==
  \A t \in req[1].threw :
    LET q == req[1] IN
      /\ t.page \in q.fetched
      /\ AboveThreshold(q.extractedTexts[t.page])
      /\ HasMarkerForm(q.translatedTexts[t.page], t.error)
      /\ q.pc \in {"page", "fetch", "body", "returned", "create", "embedFont", "copyPages", "saving", "done"}
      /\ q.pc \in {"create", "embedFont", "copyPages", "saving", "done"} =>
           Len(q.translatedTexts) = Len(q.pages)
      /\ q.pc = "done" => q.failure \in {"", "assemble", "save"}
      /\ (q.pc = "done" /\ q.failure = "") =>
           /\ q.res[1].status = 200
           /\ q.res[1].pages = Len(q.pages)
           /\ q.res[1].translatedTexts = q.translatedTexts
           /\ (\E e \in timers : e.by = 1) =>
                DownloadResponse(translationCache, q.res[1].jobId).status = 200

\* A two-page job whose first translation threw and whose second succeeded
\* was answered with 200, and its document has been downloaded.
C1_Witness ==
  /\ req[1].pc = "done"
  /\ req[1].res[1].status = 200
  /\ Len(req[1].pages) = 2
  /\ req[1].fetched = {1, 2}
  /\ {t.page : t \in req[1].threw} = {1}
  /\ req[1].translatedTexts[2] = <<"i", " ", "i">>
  /\ req[1].res[1].jobId \in dl.served

(***************************************************************************)
(* Claims about the cache and the clock (Spec).                            *)
(***************************************************************************)
\* The requests answered with 200.
Completed == {r \in DOMAIN req : req[r].res # NoResponse /\ req[r].res[1].status = 200}

\* C4: T being the timestamp of the stored entry, the identifier
\* of a request that stored its entry at time T is found by the download at
\* every time before T + 30 minutes and gets 404 at every time after it; a
\* lookup neither removes an entry nor moves its deletion.
C4_CacheTTL ==
  /\ [](\A r \in Completed :
          LET jobId == req[r].res[1].jobId
              T == req[r].stored[1].timestamp
          IN /\ now < T + TTL => DownloadResponse(translationCache, jobId).status = 200
             /\ now > T + TTL => DownloadResponse(translationCache, jobId).status = 404)
  /\ [][(req' = req /\ timers' = timers) => translationCache' = translationCache]_vars
  /\ [][dl' # dl => (translationCache' = translationCache /\ timers' = timers)]_vars

(***************************************************************************)
(* Claims about the Tesseract version of the job (SpecOcr).                *)
(***************************************************************************)
\* The request was answered with 200 and lists every page of the document,
\* page k with an empty extracted and an empty translated text.
AnsweredWithEmptyPage(k) ==
  /\ job.res[1].status = 200
  /\ job.res[1].pages = job.numPages
  /\ Len(job.res[1].extractedTexts) = job.numPages
  /\ Len(job.res[1].translatedTexts) = job.numPages
  /\ job.res[1].extractedTexts[k] = <<>>
  /\ job.res[1].translatedTexts[k] = <<>>

\* C2: when worker.recognize throws on page k, the request is still
\* answered with 200, one entry per page, page k with "" and "".
C2_RecognitionFailureIsolated ==
  \A f \in job.failed :
    (job.pc = "done" /\ f.what = "recognize") => AnsweredWithEmptyPage(f.page)

\* C3: when the rendering of page k throws, the request is still answered
\* with 200, one entry per page, page k with "" and "".
C3_RenderingFailureIsolated ==
  \A f \in job.failed :
    (job.pc = "done" /\ f.what = "render") => AnsweredWithEmptyPage(f.page)

\* C5: at most one worker is created per job, and once the request is
\* answered a worker that was created has been terminated exactly once.
C5_WorkerTerminatedOnEveryExit ==
  /\ job.created <= 1
  /\ job.terminated <= job.created
  /\ (job.pc = "done" /\ job.created > 0) => job.terminated = 1

\* C11: a page whose trimmed text has 10 characters or fewer gets the
\* translated text "" and no translation request is sent for it.
C11_BelowThresholdSkipsTranslation ==
  \A k \in DOMAIN req[1].translatedTexts :
    Len(Trim(req[1].extractedTexts[k])) <= 10 =>
      /\ req[1].translatedTexts[k] = <<>>
      /\ k \notin req[1].fetched

\* A two-page job was answered: page 1, of 14 characters that trim to 9,
\* was skipped; page 2 was sent to the translation service.
C11_Witness ==
  /\ req[1].pc = "done"
  /\ req[1].res[1].status = 200
  /\ Len(req[1].extractedTexts) = 2
  /\ Len(req[1].extractedTexts[1]) = 14
  /\ Len(Trim(req[1].extractedTexts[1])) = 9
  /\ req[1].res[1].translatedTexts[1] = <<>>
  /\ req[1].fetched = {2}

\* list grew by at most one element at its end.
GrewByAtMostOne(old, new) ==
  /\ Len(new) \in {Len(old), Len(old) + 1}
  /\ SubSeq(new, 1, Len(old)) = old

\* C12: between two iterations of the page loop and at its end the two
\* lists have the same length, the number of pages gone through; inside an
\* iteration that awaits its translation the extracted text is one ahead;
\* every step appends at most one element to each list.
C12_EqualCounts ==
  /\ [](LET q == req[1] IN
          /\ Len(q.extractedTexts) <= Len(q.pages)
          /\ q.pc \in {"page", "create", "embedFont", "copyPages", "saving"} =>
               Len(q.translatedTexts) = Len(q.extractedTexts)
          /\ q.pc \in {"fetch", "body", "returned"} =>
               Len(q.translatedTexts) + 1 = Len(q.extractedTexts)
          /\ (q.pc = "done" /\ q.failure = "") =>
               Len(q.translatedTexts) = Len(q.extractedTexts)
          /\ LoopDone(1) => Len(q.translatedTexts) = Len(q.pages))
  /\ [][/\ GrewByAtMostOne(req[1].extractedTexts, req'[1].extractedTexts)
        /\ GrewByAtMostOne(req[1].translatedTexts, req'[1].translatedTexts)]_vars

\* The loop over two pages is over: the first translation threw, the second
\* page was below the threshold.
C12_Witness ==
  /\ LoopDone(1)
  /\ Len(req[1].pages) = 2
  /\ req[1].fetched = {1}
  /\ {t.page : t \in req[1].threw} = {1}
  /\ Len(req[1].extractedTexts) = 2
  /\ Len(req[1].translatedTexts) = 2
  /\ req[1].translatedTexts[2] = <<>>

\* C13: a success response has pages equal to the number of pages of the
\* uploaded document, as many extracted and translated texts, entry i being
\* the text of page i and the text drawn on page i of the stored document.
C13_OneResultPerPage ==
  LET q == req[1] IN
    (q.pc = "done" /\ q.res[1].status = 200) =>
      /\ q.res[1].pages = q.file[1].pages
      /\ Len(q.res[1].extractedTexts) = q.file[1].pages
      /\ Len(q.res[1].translatedTexts) = q.file[1].pages
      /\ \A i \in 1..q.file[1].pages :
           /\ q.res[1].extractedTexts[i] = q.pages[i].markdown
           /\ q.pdf[1].pages[i].calls =
                OverlayPage(q.pdf[1].pages[i].size, q.res[1].translatedTexts[i])

\* Nothing in the cache and no timer comes from request r.
NoArtifactOf(r) ==
  /\ \A t \in timers : t.by # r
  /\ \A j \in DOMAIN translationCache : translationCache[j].translatedPdf.source # r

\* C14: a request whose document assembly or save threw is answered with
\* 500 and the message of the error; it has no entry in the cache and no
\* timer, and the step that fails leaves the cache and the timers as they
\* were.
C14_AssemblyFailureLeavesNoArtifact ==
  /\ [](\A r \in DOMAIN req :
          /\ req[r].failure = "assemble" =>
               /\ req[r].pc = "done"
               /\ req[r].res[1].status = 500
               /\ req[r].res[1].error = <<"F", "a", "i", "l", "e", "d", " ", "t", "o", " ", "p", "a", "r", "s", "e", " ", "P", "D", "F", " ", "d", "o", "c", "u", "m", "e", "n", "t">>
               /\ NoArtifactOf(r)
          /\ req[r].failure = "save" =>
               /\ req[r].pc = "done"
               /\ req[r].res[1].status = 500
               /\ req[r].res[1].error = <<"F", "a", "i", "l", "e", "d", " ", "t", "o", " ", "s", "a", "v", "e">>
               /\ NoArtifactOf(r))
  /\ [][\A r \in DOMAIN req :
          (req[r].failure = "" /\ req'[r].failure \in {"assemble", "save"}) =>
            (translationCache' = translationCache /\ timers' = timers)]_vars

\* Request 1 failed to save its document while the job of request 2 was in
\* the cache with its timer pending.
C14_Witness ==
  /\ req[1].failure = "save"
  /\ req[2].res # NoResponse
  /\ req[2].res[1].status = 200
  /\ DOMAIN translationCache = {req[2].res[1].jobId}
  /\ \E t \in timers : t.by = 2

\* The handler of request r never got past its checks: no OCR call, no
\* translation call, no document, and nothing of it in the cache.
NeverStarted(r) ==
  /\ req[r].pc = "done"
  /\ req[r].res[1].status = 400
  /\ req[r].pages = <<>>
  /\ req[r].extractedTexts = <<>>
  /\ req[r].translatedTexts = <<>>
  /\ req[r].fetched = {}
  /\ req[r].pdf = <<>>
  /\ NoArtifactOf(r)

\* C15: a request without a file, or with a file that is not
\* application/pdf, is answered with 400 and a message; its pipeline never
\* starts, and the step that answers it leaves the cache as it was.
C15_InvalidUploadRejected ==
  /\ [](LET q == req[1] IN
          /\ (q.pc # "new" /\ q.file = <<>>) =>
               (NeverStarted(1) /\ q.res[1].error = <<"N", "o", " ", "f", "i", "l", "e", " ", "u", "p", "l", "o", "a", "d", "e", "d">>)
          /\ (q.file # <<>> /\ q.file[1].mimetype # "application/pdf") =>
               (NeverStarted(1) /\ q.res[1].error = <<"F", "i", "l", "e", " ", "m", "u", "s", "t", " ", "b", "e", " ", "a", " ", "P", "D", "F">>)
          /\ (q.res # NoResponse /\ q.res[1].status = 400) =>
               (q.file = <<>> \/ q.file[1].mimetype # "application/pdf"))
  /\ [][(req[1].pc = "new" /\ req'[1].pc = "done") =>
          (translationCache' = translationCache /\ timers' = timers)]_vars

\* An upload of type image/png was answered with 400.
C15_Witness ==
  /\ req[1].file # <<>>
  /\ req[1].file[1].mimetype = "image/png"
  /\ req[1].res # NoResponse
  /\ req[1].res[1].status = 400

\* C16: a download of an identifier that is not in the cache is answered
\* 404 and a download of one that is in it is answered 200 with the document
\* stored under it; the lookup leaves the cache and the timers as they were;
\* every entry of the cache was put there by a request that was answered
\* with its identifier.
C16_DownloadIsPointRead ==
  /\ [][dl' # dl =>
          LET answer == dl'.last[1] IN
            /\ translationCache' = translationCache
            /\ timers' = timers
            /\ IF answer.jobId \in DOMAIN translationCache
               THEN /\ answer.status = 200
                    /\ answer.body = <<translationCache[answer.jobId].translatedPdf>>
               ELSE /\ answer.status = 404
                    /\ answer.body = <<>>]_vars
  /\ [](\A j \in DOMAIN translationCache :
          \E r \in Completed :
            /\ req[r].res[1].jobId = j
            /\ translationCache[j].translatedPdf = req[r].pdf[1])

\* A document was served, and a later download of an identifier that was
\* never issued got 404; the served document is still in the cache.
C16_Witness ==
  /\ dl.last # <<>>
  /\ dl.last[1].status = 404
  /\ dl.last[1].jobId = UnknownJobId
  /\ dl.served # {}
  /\ dl.served \subseteq DOMAIN translationCache

\* C17: on every page of the output document whose translated text is
\* empty (or missing) no drawText call was made.
C17_EmptyTranslationDrawsNothing ==
  LET q == req[1] IN
    q.pdf # <<>> =>
      \A p \in DOMAIN q.pdf[1].pages :
        (p > Len(q.translatedTexts) \/ q.translatedTexts[p] = <<>>) =>
          q.pdf[1].pages[p].calls = <<>>

\* A document of two pages was built: page 1, with an empty translated
\* text, has no call; page 2 has the lines of its translation.
C17_Witness ==
  /\ req[1].pdf # <<>>
  /\ req[1].file[1].pages = 2
  /\ Len(req[1].translatedTexts) = 2
  /\ req[1].translatedTexts[1] = <<>>
  /\ req[1].pdf[1].pages[1].calls = <<>>
  /\ req[1].translatedTexts[2] # <<>>
  /\ req[1].pdf[1].pages[2].calls # <<>>

\* Request r gets its answer in this step, and the answer is a success.
AnsweredWithSuccess(r) ==
  /\ req[r].res = NoResponse
  /\ req'[r].res # NoResponse
  /\ req'[r].res[1].status = 200

\* C18: the step that answers a request with 200 starts after the document
\* was saved and ends with the job in the cache under the identifier of the
\* answer; the cache gets or changes an entry in such a step only; a request
\* answered with an error has nothing in the cache.
C18_ArtifactExactlyOnSuccess ==
  /\ [][\A r \in DOMAIN req :
          AnsweredWithSuccess(r) =>
            LET jobId == req'[r].res[1].jobId IN
              /\ req[r].pc = "saving"
              /\ jobId \in DOMAIN translationCache'
              /\ translationCache'[jobId].translatedPdf = req[r].pdf[1]
              /\ DownloadResponse(translationCache', jobId).status = 200]_vars
  /\ [][\A j \in DOMAIN translationCache' :
          (j \notin DOMAIN translationCache \/ translationCache'[j] # translationCache[j]) =>
            \E r \in DOMAIN req : AnsweredWithSuccess(r) /\ req'[r].res[1].jobId = j]_vars
  /\ [](\A r \in DOMAIN req :
          (req[r].res # NoResponse /\ req[r].res[1].status # 200) => NoArtifactOf(r))

\* Request 1 was answered with 200 and its job is in the cache; request 2
\* failed in the OCR call and left nothing.
C18_Witness ==
  /\ req[1].res # NoResponse
  /\ req[1].res[1].status = 200
  /\ req[1].res[1].jobId \in DOMAIN translationCache
  /\ translationCache[req[1].res[1].jobId].translatedPdf.source = 1
  /\ req[2].failure = "ocr"
  /\ NoArtifactOf(2)

\* C19: no step changes an entry that is in the cache (an entry is written
\* once and never again), and no two timers are set to delete the same entry.
C19_SingleWriteSingleDelete ==
  /\ [][\A j \in DOMAIN translationCache :
          j \in DOMAIN translationCache' => translationCache'[j] = translationCache[j]]_vars
  /\ [](\A t1 \in timers : \A t2 \in timers : t1.jobId = t2.jobId => t1 = t2)

(***************************************************************************)
(* Claims about the overlay of one page (SpecReflow).                      *)
(***************************************************************************)
\* Every drawText call is at least one line height below the one before: at
\* most at the position that y - lineHeight gives from it.
DrawnLinesDescend ==
  \A k \in 1..(Len(drawn) - 1) :
    ~DoubleLess(DoubleSub(drawn[k].y, lineHeight), drawn[k + 1].y)

\* floor((height - 2 * margin) / lineHeight) + 1, lineHeight being 11.7:
\* counted in hundredths of a point.
LineBound == ((ExactMultiple(100, pageSize.height).whole - 2 * margin * 100) \div (fontSize * 130)) + 1

\* C20: the lines drawn on a page descend by at least one line
\* height, and there are at most floor((height - 2*margin) / lineHeight) + 1
\* of them.
C20_LinesBoundedByHeight ==
  reflowPc = "done" => (DrawnLinesDescend /\ Len(drawn) <= LineBound)

\* C21: for every page whose extracted text exceeds the threshold a
\* translation request was made, with the newline-joined line texts, or with
\* the flat text of the page when there are no lines.
C21_TranslationInputFallback ==
  \A k \in DOMAIN job.translatedTexts :
    Len(job.extractedTexts[k]) > 10 =>
      \E c \in DOMAIN job.sent :
        /\ job.sent[c].page = k
        /\ job.sent[c].inputs =
             IF job.ocrResults[k].lines # <<>>
             THEN JoinLines(job.ocrResults[k].lines, 1)
             ELSE job.ocrResults[k].text

(***************************************************************************)
(* Further claims about one translation job (SpecJob).                     *)
(***************************************************************************)
\* The reply has a success status and a body of one of the three forms,
\* carrying a text (possibly the empty one).
CarriesText(reply) ==
  \/ reply.kind = "array" /\ reply.items > 0 /\ reply.text # <<>>
  \/ reply.kind = "object" /\ reply.text # <<>>
  \/ reply.kind = "string" /\ reply.text # <<>>

\* C22: when the service answered for a page with a body carrying the text
\* t, the empty text included, the translated text of the page is t.
C22_SuccessStoredVerbatim ==
  \A a \in req[1].answered :
    CarriesText(a.reply) => req[1].translatedTexts[a.page] = a.reply.text[1]

(***************************************************************************)
(* Further claims about the Tesseract job (SpecOcr).                       *)
(***************************************************************************)
\* C23: the pipeline is sequential.  Pages are handled in ascending order:
\* the page being worked on is the one after those whose text is pushed, and
\* the translation requests are made for ascending pages.  A translation
\* request is out only when both variants of its page have been recognized
\* and every earlier page has its translation step behind it; loading,
\* rendering, preparing or recognizing a page goes on only when every
\* earlier page has both its extracted and its translated text, an image is
\* prepared or recognized only for a variant not yet recognized, and the
\* page is returned only with both variants recognized; the document is
\* assembled only when every page of the original has its translated text.
C23_SequentialPipeline ==
  /\ Len(job.extractedTexts) <= job.numPages
  /\ \A a, b \in 1..Len(job.sent) : a < b => job.sent[a].page < job.sent[b].page
  /\ job.pc \in {"translate", "body", "returned"} =>
       /\ Len(job.results) = Len(Variants)
       /\ Len(job.translatedTexts) + 1 = Len(job.extractedTexts)
  /\ job.pc \in {"translate", "body"} =>
       job.sent[Len(job.sent)].page = Len(job.extractedTexts)
  /\ job.pc \in {"pageLoad", "getPage", "render", "sharp", "recognize", "pageSize"} =>
       /\ Len(job.translatedTexts) = Len(job.extractedTexts)
       /\ Len(job.extractedTexts) < job.numPages
  /\ job.pc \in {"sharp", "recognize"} => Len(job.results) < Len(Variants)
  /\ job.pc = "pageSize" => Len(job.results) = Len(Variants)
  /\ job.pc \in {"pdfLoad", "pdfCreate", "pdfFont", "pdfCopy", "pdfSave"} =>
       /\ Len(job.translatedTexts) = job.numPages
       /\ Len(job.extractedTexts) = job.numPages

\* A two-page job whose both pages were sent for translation is assembled.
C23_Witness ==
  /\ job.pc = "pdfLoad"
  /\ job.numPages = 2
  /\ Len(job.sent) = 2

(***************************************************************************)
(* Further claims about the overlay of one page (SpecReflow).              *)
(***************************************************************************)
\* Two lines drawn one after the other belong to the same paragraph exactly
\* when the second is one line height below the first: between paragraphs
\* the cursor goes down by half a line height more.
NextLineOfParagraph(k) == k < Len(drawn) /\ drawn[k + 1].y = DoubleSub(drawn[k].y, lineHeight)

\* The words ws stand one after the other somewhere in paragraph.
WordsInOrder(ws, paragraph) ==
  LET all == SplitWords(paragraph)
  IN \E first \in 1..(Len(all) + 1) :
       /\ first + Len(ws) - 1 <= Len(all)
       /\ \A j \in 1..Len(ws) : all[first + j - 1] = ws[j]

\* C24: packing is greedy.  Of two lines of one paragraph drawn one after
\* the other, the words of the first followed by those of the second stand in
\* this order, one after the other, in a paragraph of the text, and the first
\* line with a space and the first word of the second is wider than the page
\* width less the margin on both sides.
C24_GreedyPacking ==
  \A k \in 1..Len(drawn) :
    NextLineOfParagraph(k) =>
      LET here == SplitWords(drawn[k].text)
          below == SplitWords(drawn[k + 1].text)
      IN /\ here # <<>> /\ below # <<>>
         /\ \E p \in 1..Len(SplitParagraphs(translatedText)) :
              WordsInOrder(here \o below, SplitParagraphs(translatedText)[p])
         /\ DoubleLess(DoubleSub(pageSize.width, FromInt(2 * margin)),
                       widthOfTextAtSize(drawn[k].text \o <<" ">> \o below[1], fontSize))

\* On an A4 page a paragraph of sixty words fills a line with 54 of them
\* and goes on in the next line.
C24_Witness ==
  /\ reflowPc = "done"
  /\ pageSize = PageSize(59528, 84189)
  /\ \E k \in 1..Len(drawn) :
       /\ NextLineOfParagraph(k)
       /\ Len(SplitWords(drawn[k].text)) = 54
       /\ Len(SplitWords(drawn[k + 1].text)) = 6

\* translatedTexts[index] || ""
TextOfPage(r, p) ==
  IF p <= Len(req[r].translatedTexts) THEN req[r].translatedTexts[p] ELSE <<>>

(***************************************************************************)
(* Further claims about one translation job (SpecJob), continued.          *)
(***************************************************************************)
\* C25: truncation adds no page.  The document built has as many pages as
\* the uploaded one, and every word drawn on its page p is a word of the
\* translated text of page p: what does not fit on a page is drawn nowhere.
C25_TruncationAddsNoPage ==
  req[1].pdf # <<>> =>
    /\ Len(req[1].pdf[1].pages) = req[1].file[1].pages
    /\ \A p \in 1..Len(req[1].pdf[1].pages) :
         LET wordsOfPage == Range(SplitWords(TextOfPage(1, p))) IN
           \A k \in 1..Len(req[1].pdf[1].pages[p].calls) :
             Range(SplitWords(req[1].pdf[1].pages[p].calls[k].text)) \subseteq wordsOfPage

\* A document of two pages is built; a word of the first text is drawn
\* nowhere on the first page, and the second page has its own lines.
C25_Witness ==
  /\ req[1].pdf # <<>>
  /\ req[1].file[1].pages = 2
  /\ Len(req[1].pdf[1].pages) = 2
  /\ \E w \in Range(SplitWords(TextOfPage(1, 1))) :
       \A k \in 1..Len(req[1].pdf[1].pages[1].calls) :
         w \notin Range(SplitWords(req[1].pdf[1].pages[1].calls[k].text))
  /\ req[1].pdf[1].pages[1].calls # <<>>
  /\ req[1].pdf[1].pages[2].calls # <<>>
  /\ TextOfPage(1, 1) # TextOfPage(1, 2)

(***************************************************************************)
(* Further claims about the overlay of one page (SpecReflow), continued.   *)
(***************************************************************************)
\* The words of the lines drawn, in drawing order.
DrawnWords ==
  LET RECURSIVE from(_)
      from(k) == IF k > Len(drawn) THEN <<>> ELSE SplitWords(drawn[k].text) \o from(k + 1)
  IN from(1)

\* C26: truncation drops a suffix.  The words drawn on the page, in drawing
\* order, are the first words of the text: once a word is left out, no later
\* word of the text is drawn.
C26_TruncationDropsSuffix ==
  reflowPc = "done" =>
    /\ Len(DrawnWords) <= Len(SplitWords(translatedText))
    /\ DrawnWords = SubSeq(SplitWords(translatedText), 1, Len(DrawnWords))

\* An A7 page takes 22 lines of a paragraph of 48 words that go two to a
\* line: the word loop stops at the foot of the page with the 43rd word as
\* the last line, and the last five words are drawn nowhere.
C26_Witness ==
  /\ reflowPc = "done"
  /\ pageSize = PageSize(20976, 29764)
  /\ Len(SplitParagraphs(translatedText)) = 1
  /\ Len(SplitWords(translatedText)) = 48
  /\ Len(drawn) = 22
  /\ Len(DrawnWords) = 43

(***************************************************************************)
(* Further claims about the line reconstruction (SpecLines).               *)
(***************************************************************************)
\* The number of characters in front of the j-th of the texts of ws when
\* they are written one after the other with one character between two.
RECURSIVE TextOffset(_, _)
TextOffset(ws, j) == IF j = 1 THEN 0 ELSE TextOffset(ws, j - 1) + Len(ws[j - 1].text) + 1

\* text is the texts of ws with exactly one space between two of them.
SpacedTexts(text, ws) ==
  /\ Len(text) = TextOffset(ws, Len(ws) + 1) - 1
  /\ \A j \in DOMAIN ws :
       /\ SubSeq(text, TextOffset(ws, j) + 1, TextOffset(ws, j) + Len(ws[j].text)) = ws[j].text
       /\ j < Len(ws) => text[TextOffset(ws, j + 1)] = " "

\* C27: the text of every line is the texts of its words with one space
\* between two, in the order of the line; the words, read line after line,
\* ascend by y0, and words of equal y0 stand in their input order.
C27_LineTextConstruction ==
  linesPc = "done" =>
    /\ \A a \in DOMAIN lines : SpacedTexts(lines[a].text, lines[a].words)
    /\ LET walk == FlattenLines(lines, 1)
       IN \A i, j \in DOMAIN walk :
            i < j => \/ walk[i].y0 < walk[j].y0
                     \/ walk[i].y0 = walk[j].y0 /\ walk[i].id < walk[j].id

\* The first input word is the lowest on the page; the two others have the
\* same top edge and make the line "ka ka", in input order.
C27_Witness ==
  /\ linesPc = "done"
  /\ Len(lines) = 2
  /\ lines[1].text = <<"k", "a", " ", "k", "a">>
  /\ lines[1].words[1].id = 2 /\ lines[1].words[2].id = 3
  /\ lines[1].words[1].y0 = lines[1].words[2].y0
  /\ lines[2].words[1].id = 1

(***************************************************************************)
(* Further claims about the variant selector (SpecVariants).               *)
(***************************************************************************)
\* C28: the k-th image is prepared for the k-th variant; when sharp threw
\* the image handed to the recognition is the rendered page as it was, and
\* when it did not, an enhancement of the rendered page as it was.  A throw
\* of sharp ends nothing: every image prepared is handed to the recognition
\* (one is pending, or was rejected, exactly when there is one image more
\* than results), and a result is selected only after one recognition per
\* variant.
C28_PreprocessingFallback ==
  /\ \A k \in DOMAIN processed :
       /\ processed[k].variant = Variants[k]
       /\ processed[k].threw => processed[k].image = "raw"
       /\ ~processed[k].threw => processed[k].image = <<"enhanced", Variants[k], "raw">>
  /\ varPc = "loop" => Len(processed) = Len(results)
  /\ varPc \in {"recognize", "thrown"} => Len(processed) = Len(results) + 1
  /\ varPc = "selected" => Len(processed) = Len(Variants) /\ Len(results) = Len(Variants)

\* sharp threw for both variants, both were recognized all the same and a
\* result was selected.
C28_Witness ==
  /\ varPc = "selected"
  /\ Len(processed) = 2
  /\ processed[1].threw /\ processed[2].threw
  /\ processed[1].image = "raw" /\ processed[2].image = "raw"
  /\ Len(bestResult) = 1

(***************************************************************************)
(* Further claims about the server (Spec).                                 *)
(***************************************************************************)
\* C29: an entry leaves the cache only when 30 minutes have passed since it
\* was stored, and only by the timer of the request that stored it.
C29_NoEvictionByAnotherRequest ==
  [][\A j \in DOMAIN translationCache :
       j \notin DOMAIN translationCache' =>
         /\ now >= translationCache[j].timestamp + TTL
         /\ \E t \in timers \ timers' :
              /\ t.jobId = j
              /\ t.by = translationCache[j].translatedPdf.source]_vars

\* What request r holds of its job is made of its own upload: the texts
\* extracted are those of its own pages, in order, and the document built is
\* the copy of its own upload, page for page.
HoldsOwnResults(r) ==
  /\ \A k \in DOMAIN req[r].extractedTexts :
       /\ k <= Len(req[r].pages)
       /\ req[r].extractedTexts[k] = req[r].pages[k].markdown
  /\ Len(req[r].translatedTexts) <= Len(req[r].extractedTexts)
  /\ req[r].pdf # <<>> =>
       /\ req[r].pdf[1].source = r
       /\ Len(req[r].pdf[1].pages) = req[r].file[1].pages

\* C30: two jobs that run interleaved are isolated.  A step changes what at
\* most one request holds, every request holds results of its own pages
\* only, and as long as the entry stored under the identifier a request was
\* answered with is in the cache, it is the job of this request.
C30_ConcurrentJobsIsolated ==
  /\ [][\A r \in DOMAIN req : \A s \in DOMAIN req :
          (r # s /\ req'[r] # req[r]) => req'[s] = req[s]]_vars
  /\ [](\A r \in DOMAIN req : HoldsOwnResults(r))
  /\ [](\A r \in Completed :
          req[r].res[1].jobId \in DOMAIN translationCache =>
            /\ translationCache[req[r].res[1].jobId].translatedPdf.source = r
            /\ translationCache[req[r].res[1].jobId].extractedTexts = req[r].extractedTexts
            /\ translationCache[req[r].res[1].jobId].translatedTexts = req[r].translatedTexts)

=============================================================================
